---- MODULE Spec2Model ----
(***************************************************************************)
(* FastThink working-memory engine (helixir/src/toolkit/fast_think).       *)
(*                                                                         *)
(* ThinkingSession (session.rs) is modelled by pure operators over a       *)
(* session record; FastThinkManager (manager.rs) by one action per         *)
(* operation.  The asynchronous operations (recall, commit,                *)
(* commit_partial) are split at their .await on the external store: the    *)
(* part before and the part after the await are separate atomic steps,     *)
(* each taken under the manager's write lock.                              *)
(*                                                                         *)
(* Conventions                                                             *)
(*  - NodeIndex: petgraph numbers nodes 0,1,2,... in insertion order and   *)
(*    the engine never removes a node; here node k of the source is        *)
(*    position k+1 of graph.nodes, and NoNode (0) is Option::None.         *)
(*  - Instants are ticks of the clock `now`; x.elapsed() is now - x.       *)
(*  - f32 certainties and scores are counted in tenths (5 is 0.5).         *)
(*  - A panic (petgraph's add_edge on a missing node) unwinds: the         *)
(*    parking_lot guard is released without poisoning and the session      *)
(*    keeps what had been written before the panic; the call's result is   *)
(*    "Panic".                                                             *)
(***************************************************************************)
EXTENDS Integers, Sequences, FiniteSets, Bags, TLC

VARIABLES
    sessions,   \* FastThinkManager.sessions: session_id -> ThinkingSession
    recalls,    \* recall calls suspended in the store's search (a bag)
    commits,    \* commit and commit_partial calls suspended in the store's write (a bag)
    now,        \* the monotonic clock
    store,      \* the external store: the writes it received, in order
    ret,        \* the result of the operation that took the last step
    started,    \* number of sessions created so far (names the instances)
    taken       \* which operation took each session out of the map, in order

vars == <<sessions, recalls, commits, now, store, ret, started, taken>>

-----------------------------------------------------------------------------
(* FastThinkLimits: the configured budget (limits.rs), small enough to     *)
(* explore.                                                                *)
max_thoughts == 3
max_entities == 1
max_concepts == 1
max_depth == 1
thinking_timeout == 1
session_ttl == 2
max_recall_results == 1

(* Bounds of the exploration. *)
MaxTime == 3          \* the clock stops at MaxTime
MaxStarts == 2        \* sessions created in one behaviour
MaxCalls == 2         \* asynchronous calls suspended at the same time
MaxEdges == 2         \* link_thoughts is tried on graphs of fewer edges
MaxIndexLen == 2      \* extract_entity and map_to_concept are tried on shorter index lists
MaxRecords == 2       \* records one search returns
LateTime == 6         \* the clock of SpecSweep stops at LateTime

SessionIds == {"s1"}
NoNode == 0
None == "none"

-----------------------------------------------------------------------------
(* models.rs *)

Thought_new(content, thought_type, depth) ==
    [content |-> content, thought_type |-> thought_type, certainty |-> 5,
     depth |-> depth, source_memory_id |-> None]

is_conclusion(t) == t.thought_type = "conclusion"

is_recall(t) == t.thought_type = "recall"

Contains(seq, x) == \E i \in 1..Len(seq) : seq[i] = x

add_mention(mentions, thought_idx) ==
    IF Contains(mentions, thought_idx) THEN mentions ELSE Append(mentions, thought_idx)

link_thought(related, thought_idx) ==
    IF Contains(related, thought_idx) THEN related ELSE Append(related, thought_idx)

(* Variant: names kept as they are written. *)
to_lowercase_identity(name) == name

(* str::to_lowercase on the names the model uses. *)
to_lowercase(name) ==
    CASE name = "Rust" -> "rust"
      [] name = "RUST" -> "rust"
      [] name = "Go" -> "go"
      [] OTHER -> name

-----------------------------------------------------------------------------
(* petgraph::StableDiGraph as the session uses it: nodes and edges in       *)
(* insertion order.                                                         *)

EmptyGraph == [nodes |-> <<>>, edges |-> <<>>]

node_count(g) == Len(g.nodes)

has_node(g, idx) == idx \in 1..Len(g.nodes)

add_node(g, thought) == [g EXCEPT !.nodes = Append(@, thought)]

(* Variant: a graph that accepts an edge whatever its endpoints. *)
add_edge_never_panics(g, a, b) == FALSE

(* add_edge panics when an endpoint is not a node of the graph. *)
add_edge_panics(g, a, b) == ~has_node(g, a) \/ ~has_node(g, b)

add_edge(g, a, b, weight) ==
    [g EXCEPT !.edges = Append(@, [source |-> a, target |-> b, weight |-> weight])]

(* edges_directed(idx, Incoming): petgraph walks the node's incoming list,  *)
(* which new edges are pushed in front of: latest edge first.               *)
RECURSIVE IncomingFrom(_, _, _)
IncomingFrom(g, idx, k) ==
    IF k = 0 THEN <<>>
    ELSE IF g.edges[k].target = idx
         THEN <<g.edges[k]>> \o IncomingFrom(g, idx, k - 1)
         ELSE IncomingFrom(g, idx, k - 1)

get_parents(g, idx) == IncomingFrom(g, idx, Len(g.edges))

-----------------------------------------------------------------------------
(* session.rs: ThinkingSession *)

ThinkingSession_new(session_id, inst, t) ==
    [id |-> session_id,
     inst |-> inst,              \* which object this is (not a field of the source)
     graph |-> EmptyGraph,
     entities |-> <<>>,          \* HashMap as a function on its keys
     concepts |-> <<>>,
     thought_to_concepts |-> <<>>,
     thought_to_entities |-> <<>>,
     started_at |-> t,
     last_activity |-> t,
     current_depth |-> 0,
     status |-> "thinking",
     root_thought |-> NoNode]

(* Variant: a count that leaves out the initial thought. *)
thought_count_less_one(s) == node_count(s.graph) - 1

thought_count(s) == node_count(s.graph)

(* Variant: a count that is one short. *)
entity_count_less_one(s) == Cardinality(DOMAIN s.entities) - 1

entity_count(s) == Cardinality(DOMAIN s.entities)

concept_count(s) == Cardinality(DOMAIN s.concepts)

(* Variant: a maximum that keeps its first argument. *)
Max_left(a, b) == a

Max(a, b) == IF a >= b THEN a ELSE b

Fail(s, err) == [session |-> s, err |-> err, node |-> NoNode]

Done(s, node) == [session |-> s, err |-> "Ok", node |-> node]

(* Variant: the timeout measured from the last activity, not the start. *)
timed_out_since_activity(s, t) == t - s.last_activity > thinking_timeout

(* The check at lines 49-52. *)
timed_out(s, t) == t - s.started_at > thinking_timeout

(* Variant: a budget check that is off by one. *)
is_full_off_by_one(s) == node_count(s.graph) > max_thoughts

(* The check at lines 54-57. *)
is_full(s) == node_count(s.graph) >= max_thoughts

(* Variant: a depth that stops growing at max_depth. *)
child_depth_clamped(s, parent) ==
    IF parent # NoNode /\ has_node(s.graph, parent)
    THEN IF s.graph.nodes[parent].depth < max_depth
         THEN s.graph.nodes[parent].depth + 1
         ELSE max_depth
    ELSE 0

(* Lines 59-62: a parent that is not in the graph gives depth 0. *)
child_depth(s, parent) ==
    IF parent # NoNode /\ has_node(s.graph, parent)
    THEN s.graph.nodes[parent].depth + 1
    ELSE 0

(* Variant: the budget is tested before the timeout. *)
add_thought_budget_first(s, content, thought_type, parent, edge_type, t) ==
    IF is_full(s) THEN Fail([s EXCEPT !.status = "overflow"], "TooManyThoughts")
    ELSE IF timed_out(s, t) THEN Fail([s EXCEPT !.status = "timed_out"], "Timeout")
    ELSE
      LET depth == child_depth(s, parent)
          node == node_count(s.graph) + 1
          g1 == add_node(s.graph, Thought_new(content, thought_type, depth))
          edge == IF edge_type = None THEN "leads_to" ELSE edge_type
      IN IF depth > max_depth THEN Fail(s, "TooDeep")
         ELSE IF parent # NoNode /\ add_edge_panics(g1, parent, node)
              THEN [session |-> [s EXCEPT !.graph = g1], err |-> "Panic", node |-> NoNode]
              ELSE
                LET g2 == IF parent # NoNode THEN add_edge(g1, parent, node, edge) ELSE g1
                IN Done([s EXCEPT !.graph = g2,
                                  !.root_thought = IF @ = NoNode THEN node ELSE @,
                                  !.last_activity = t,
                                  !.current_depth = Max(@, depth)],
                        node)

add_thought(s, content, thought_type, parent, edge_type, t) ==
    IF timed_out(s, t) THEN Fail([s EXCEPT !.status = "timed_out"], "Timeout")
    ELSE IF is_full(s) THEN Fail([s EXCEPT !.status = "overflow"], "TooManyThoughts")
    ELSE
      LET depth == child_depth(s, parent)
          node == node_count(s.graph) + 1
          g1 == add_node(s.graph, Thought_new(content, thought_type, depth))
          edge == IF edge_type = None THEN "leads_to" ELSE edge_type
      IN IF depth > max_depth THEN Fail(s, "TooDeep")
         ELSE IF parent # NoNode /\ add_edge_panics(g1, parent, node)
              THEN [session |-> [s EXCEPT !.graph = g1], err |-> "Panic", node |-> NoNode]
              ELSE
                LET g2 == IF parent # NoNode THEN add_edge(g1, parent, node, edge) ELSE g1
                IN Done([s EXCEPT !.graph = g2,
                                  !.root_thought = IF @ = NoNode THEN node ELSE @,
                                  !.last_activity = t,
                                  !.current_depth = Max(@, depth)],
                        node)

add_recalled_thought(s, content, source_memory_id, certainty, parent, t) ==
    LET r == add_thought(s, content, "recall", parent, "recalled", t)
    IN IF r.err # "Ok" THEN r
       ELSE Done([r.session EXCEPT
                     !.graph.nodes[r.node].source_memory_id = source_memory_id,
                     !.graph.nodes[r.node].certainty = certainty],
                 r.node)

(* Lines 126-128: one supports edge per supporting thought after the first; *)
(* the loop stops at the first add_edge that panics.                        *)
RECURSIVE add_supports(_, _, _, _)
add_supports(g, supporting, k, node) ==
    IF k > Len(supporting) THEN [graph |-> g, panicked |-> FALSE]
    ELSE IF add_edge_panics(g, supporting[k], node) THEN [graph |-> g, panicked |-> TRUE]
    ELSE add_supports(add_edge(g, supporting[k], node, "supports"), supporting, k + 1, node)

(* Variant: the status is set whether or not the thought was inserted. *)
add_conclusion_decides_anyway(s, content, supporting_thoughts, t) ==
    LET parent == IF Len(supporting_thoughts) > 0 THEN supporting_thoughts[1] ELSE NoNode
        r == add_thought(s, content, "conclusion", parent, "leads_to", t)
    IN IF r.err # "Ok" THEN [r EXCEPT !.session.status = "decided"]
       ELSE LET e == add_supports(r.session.graph, supporting_thoughts, 2, r.node)
            IN IF e.panicked
               THEN [session |-> [r.session EXCEPT !.graph = e.graph],
                     err |-> "Panic", node |-> NoNode]
               ELSE Done([r.session EXCEPT !.graph = e.graph, !.status = "decided"],
                         r.node)

(* Variant: the loop over the supporting thoughts does not skip the first. *)
add_conclusion_noskip(s, content, supporting_thoughts, t) ==
    LET parent == IF Len(supporting_thoughts) > 0 THEN supporting_thoughts[1] ELSE NoNode
        r == add_thought(s, content, "conclusion", parent, "leads_to", t)
    IN IF r.err # "Ok" THEN r
       ELSE LET e == add_supports(r.session.graph, supporting_thoughts, 1, r.node)
            IN IF e.panicked
               THEN [session |-> [r.session EXCEPT !.graph = e.graph],
                     err |-> "Panic", node |-> NoNode]
               ELSE Done([r.session EXCEPT !.graph = e.graph, !.status = "decided"],
                         r.node)

add_conclusion(s, content, supporting_thoughts, t) ==
    LET parent == IF Len(supporting_thoughts) > 0 THEN supporting_thoughts[1] ELSE NoNode
        r == add_thought(s, content, "conclusion", parent, "leads_to", t)
    IN IF r.err # "Ok" THEN r
       ELSE LET e == add_supports(r.session.graph, supporting_thoughts, 2, r.node)
            IN IF e.panicked
               THEN [session |-> [r.session EXCEPT !.graph = e.graph],
                     err |-> "Panic", node |-> NoNode]
               ELSE Done([r.session EXCEPT !.graph = e.graph, !.status = "decided"],
                         r.node)

(* Variant: only the first endpoint is looked up. *)
link_thoughts_from_only(s, from, to, edge_type) ==
    IF ~has_node(s.graph, from) THEN Fail(s, "ThoughtNotFound")
    ELSE Done([s EXCEPT !.graph = add_edge(@, from, to, edge_type)], NoNode)

link_thoughts(s, from, to, edge_type) ==
    IF ~has_node(s.graph, from) THEN Fail(s, "ThoughtNotFound")
    ELSE IF ~has_node(s.graph, to) THEN Fail(s, "ThoughtNotFound")
    ELSE Done([s EXCEPT !.graph = add_edge(@, from, to, edge_type)], NoNode)

(* HashMap entry(k).or_default().push(v) *)
push_index(index, thought_idx, name) ==
    IF thought_idx \in DOMAIN index
    THEN [index EXCEPT ![thought_idx] = Append(@, name)]
    ELSE [k \in DOMAIN index \cup {thought_idx} |->
             IF k = thought_idx THEN <<name>> ELSE index[k]]

map_insert(map, key, value) ==
    [k \in DOMAIN map \cup {key} |-> IF k = key THEN value ELSE map[k]]

(* Ids are uuids: fresh, so an id is named by the key and the instant the   *)
(* record was created under.                                                *)
extract_entity(s, thought_idx, name, entity_type) ==
    LET normalized_name == to_lowercase(name)
    IN IF ~has_node(s.graph, thought_idx)
       THEN [session |-> s, err |-> "ThoughtNotFound", id |-> None]
       ELSE IF normalized_name \in DOMAIN s.entities
       THEN [session |-> [s EXCEPT
                 !.entities[normalized_name].mentions = add_mention(@, thought_idx),
                 !.thought_to_entities = push_index(@, thought_idx, normalized_name)],
             err |-> "Ok", id |-> s.entities[normalized_name].id]
       ELSE IF entity_count(s) >= max_entities
       THEN [session |-> s, err |-> "TooManyEntities", id |-> None]
       ELSE LET entity == [id |-> "e-" \o name, name |-> name,
                           entity_type |-> entity_type,
                           mentions |-> <<thought_idx>>]
            IN [session |-> [s EXCEPT
                    !.entities = map_insert(@, normalized_name, entity),
                    !.thought_to_entities = push_index(@, thought_idx, normalized_name)],
                err |-> "Ok", id |-> entity.id]

map_to_concept(s, thought_idx, concept_name, parent_concept) ==
    LET normalized_name == to_lowercase(concept_name)
    IN IF ~has_node(s.graph, thought_idx)
       THEN [session |-> s, err |-> "ThoughtNotFound", id |-> None]
       ELSE IF normalized_name \in DOMAIN s.concepts
       THEN [session |-> [s EXCEPT
                 !.concepts[normalized_name].related_thoughts = link_thought(@, thought_idx),
                 !.thought_to_concepts = push_index(@, thought_idx, normalized_name)],
             err |-> "Ok", id |-> s.concepts[normalized_name].id]
       ELSE IF concept_count(s) >= max_concepts
       THEN [session |-> s, err |-> "TooManyConcepts", id |-> None]
       ELSE LET concept == [id |-> "c-" \o concept_name, name |-> concept_name,
                            parent |-> parent_concept,
                            related_thoughts |-> <<thought_idx>>]
            IN [session |-> [s EXCEPT
                    !.concepts = map_insert(@, normalized_name, concept),
                    !.thought_to_concepts = push_index(@, thought_idx, normalized_name)],
                err |-> "Ok", id |-> concept.id]

(* Variant: the parent is pushed before the revisit test. *)
RECURSIVE chain_walk_push_first(_, _, _)
chain_walk_push_first(g, chain, current) ==
    LET parents == get_parents(g, current)
    IN IF Len(parents) = 0 THEN chain
       ELSE IF Contains(chain, parents[1].source) THEN Append(chain, parents[1].source)
       ELSE chain_walk_push_first(g, Append(chain, parents[1].source), parents[1].source)

(* get_chain_to_root, lines 273-279: the loop, with the chain so far from   *)
(* idx upwards.                                                             *)
RECURSIVE chain_walk(_, _, _)
chain_walk(g, chain, current) ==
    LET parents == get_parents(g, current)
    IN IF Len(parents) = 0 THEN chain
       ELSE IF Contains(chain, parents[1].source) THEN chain
       ELSE chain_walk(g, Append(chain, parents[1].source), parents[1].source)

Reverse(seq) == [k \in 1..Len(seq) |-> seq[Len(seq) + 1 - k]]

get_chain_to_root(s, idx) == Reverse(chain_walk(s.graph, <<idx>>, idx))

RECURSIVE SelectNodes(_, _, _)
SelectNodes(g, kind, k) ==
    IF k > Len(g.nodes) THEN <<>>
    ELSE IF g.nodes[k].thought_type = kind
         THEN <<k>> \o SelectNodes(g, kind, k + 1)
         ELSE SelectNodes(g, kind, k + 1)

(* Variant: every thought counts as a conclusion. *)
get_conclusions_any(s) == [k \in 1..Len(s.graph.nodes) |-> k]

get_conclusions(s) == SelectNodes(s.graph, "conclusion", 1)


RECURSIVE JoinStrings(_, _, _)
JoinStrings(strs, sep, k) ==
    IF k > Len(strs) THEN ""
    ELSE IF k = Len(strs) THEN strs[k]
    ELSE strs[k] \o sep \o JoinStrings(strs, sep, k + 1)

build_conclusion_content(s) ==
    LET conclusions == get_conclusions(s)
    IN IF Len(conclusions) = 0 THEN ""
       ELSE JoinStrings([i \in 1..Len(conclusions) |->
                            s.graph.nodes[conclusions[i]].content], "\n", 1)

(* Variant: only the Recall thoughts that an edge leads out of. *)
get_supporting_evidence_linked(s) ==
    LET all == SelectNodes(s.graph, "recall", 1)
        recall_nodes == SelectSeq(all, LAMBDA n :
                            \E e \in 1..Len(s.graph.edges) : s.graph.edges[e].source = n)
    IN [i \in 1..Len(recall_nodes) |->
           LET thought == s.graph.nodes[recall_nodes[i]]
           IN "[" \o (IF thought.source_memory_id = None THEN "unknown"
                      ELSE thought.source_memory_id)
                  \o "] " \o thought.content]

get_supporting_evidence(s) ==
    LET recall_nodes == SelectNodes(s.graph, "recall", 1)
    IN [i \in 1..Len(recall_nodes) |->
           LET thought == s.graph.nodes[recall_nodes[i]]
           IN "[" \o (IF thought.source_memory_id = None THEN "unknown"
                      ELSE thought.source_memory_id)
                  \o "] " \o thought.content]

-----------------------------------------------------------------------------
(* The external store (HelixirClient): what a search may return.  The      *)
(* store is opaque to the engine, which passes max_recall_results as the    *)
(* limit and takes every record it is handed.                               *)

AllMemories ==
    <<[id |-> "m7", content |-> "LRU works for bursty", score |-> 9],
      [id |-> "m8", content |-> "LFU for skew", score |-> 7],
      [id |-> "m9", content |-> "FIFO is simple", score |-> 3]>>

StoreResults == {SubSeq(AllMemories, 1, n) : n \in 0..MaxRecords}

-----------------------------------------------------------------------------
(* manager.rs: FastThinkManager *)

(* SessionInfo, lines 380-390, before any session was asked for it. *)
NoInfo ==
    [status |-> None, thought_count |-> 0, entity_count |-> 0, concept_count |-> 0,
     current_depth |-> 0, elapsed |-> 0, has_conclusion |-> FALSE]

Ret(op, session_id, inst, err) ==
    [op |-> op, session_id |-> session_id, inst |-> inst, err |-> err,
     node |-> NoNode, nodes |-> <<>>, count |-> 0, id |-> None,
     parent |-> NoNode, name |-> None, memories |-> <<>>, status0 |-> None,
     info |-> NoInfo, ids |-> <<>>]

(* Variant: a lookup that never finds the session. *)
Present_never(session_id) == FALSE

Present(session_id) == session_id \in DOMAIN sessions

map_put(map, key, value) ==
    [k \in DOMAIN map \cup {key} |-> IF k = key THEN value ELSE map[k]]

map_remove(map, key) == [k \in DOMAIN map \ {key} |-> map[k]]

Suspended == BagCardinality(recalls) + BagCardinality(commits)

Init ==
    /\ sessions = <<>>
    /\ recalls = EmptyBag
    /\ commits = EmptyBag
    /\ now = 0
    /\ store = <<>>
    /\ started = 0
    /\ taken = <<>>
    /\ ret = Ret("new", None, 0, "Ok")

StartThinking(session_id, initial_thought) ==
    /\ UNCHANGED <<recalls, commits, now, store, taken>>
    /\ IF Present(session_id)
       THEN /\ ret' = Ret("start_thinking", session_id, sessions[session_id].inst,
                          "SessionAlreadyExists")
            /\ UNCHANGED <<sessions, started>>
       ELSE LET r == add_thought(ThinkingSession_new(session_id, started + 1, now),
                                 initial_thought, "initial", NoNode, None, now)
            IN IF r.err # "Ok"
               THEN /\ ret' = Ret("start_thinking", session_id, 0, r.err)
                    /\ UNCHANGED <<sessions, started>>
               ELSE /\ sessions' = map_put(sessions, session_id, r.session)
                    /\ started' = started + 1
                    /\ ret' = [Ret("start_thinking", session_id, started + 1, "Ok")
                                 EXCEPT !.node = r.node]

AddThought(session_id, content, thought_type, parent, edge_type) ==
    /\ UNCHANGED <<recalls, commits, now, store, started, taken>>
    /\ IF ~Present(session_id)
       THEN /\ ret' = Ret("add_thought", session_id, 0, "SessionNotFound")
            /\ UNCHANGED sessions
       ELSE LET r == add_thought(sessions[session_id], content, thought_type,
                                 parent, edge_type, now)
            IN /\ sessions' = [sessions EXCEPT ![session_id] = r.session]
               /\ ret' = [Ret("add_thought", session_id, r.session.inst, r.err)
                            EXCEPT !.node = r.node, !.parent = parent]

Conclude(session_id, conclusion, supporting_thoughts) ==
    /\ UNCHANGED <<recalls, commits, now, store, started, taken>>
    /\ IF ~Present(session_id)
       THEN /\ ret' = Ret("conclude", session_id, 0, "SessionNotFound")
            /\ UNCHANGED sessions
       ELSE LET r == add_conclusion(sessions[session_id], conclusion,
                                    supporting_thoughts, now)
            IN /\ sessions' = [sessions EXCEPT ![session_id] = r.session]
               /\ ret' = [Ret("conclude", session_id, r.session.inst, r.err)
                            EXCEPT !.node = r.node,
                                   !.parent = IF Len(supporting_thoughts) > 0
                                              THEN supporting_thoughts[1] ELSE NoNode]

LinkThoughts(session_id, from, to, edge_type) ==
    /\ UNCHANGED <<recalls, commits, now, store, started, taken>>
    /\ IF ~Present(session_id)
       THEN /\ ret' = Ret("link_thoughts", session_id, 0, "SessionNotFound")
            /\ UNCHANGED sessions
       ELSE LET r == link_thoughts(sessions[session_id], from, to, edge_type)
            IN /\ sessions' = [sessions EXCEPT ![session_id] = r.session]
               /\ ret' = [Ret("link_thoughts", session_id, r.session.inst, r.err)
                            EXCEPT !.nodes = <<from, to>>]

ExtractEntity(session_id, thought_idx, name, entity_type) ==
    /\ UNCHANGED <<recalls, commits, now, store, started, taken>>
    /\ IF ~Present(session_id)
       THEN /\ ret' = Ret("extract_entity", session_id, 0, "SessionNotFound")
            /\ UNCHANGED sessions
       ELSE LET r == extract_entity(sessions[session_id], thought_idx, name, entity_type)
            IN /\ sessions' = [sessions EXCEPT ![session_id] = r.session]
               /\ ret' = [Ret("extract_entity", session_id, r.session.inst, r.err)
                            EXCEPT !.id = r.id, !.parent = thought_idx, !.name = name]

MapToConcept(session_id, thought_idx, concept_name, parent_concept) ==
    /\ UNCHANGED <<recalls, commits, now, store, started, taken>>
    /\ IF ~Present(session_id)
       THEN /\ ret' = Ret("map_to_concept", session_id, 0, "SessionNotFound")
            /\ UNCHANGED sessions
       ELSE LET r == map_to_concept(sessions[session_id], thought_idx, concept_name,
                                    parent_concept)
            IN /\ sessions' = [sessions EXCEPT ![session_id] = r.session]
               /\ ret' = [Ret("map_to_concept", session_id, r.session.inst, r.err)
                            EXCEPT !.id = r.id, !.parent = thought_idx,
                                   !.name = concept_name]

(* recall, lines 86-90: phase 1, then the call suspends in the store search. *)
(* inst and status0 are not in the source: they remember which session      *)
(* object phase 1 saw and the status it overwrote.                          *)
RecallBegin(session_id, parent_thought) ==
    /\ UNCHANGED <<commits, now, store, started, taken>>
    /\ IF ~Present(session_id)
       THEN /\ ret' = Ret("recall", session_id, 0, "SessionNotFound")
            /\ UNCHANGED <<sessions, recalls>>
       ELSE /\ sessions' = [sessions EXCEPT ![session_id].status = "needs_recall"]
            /\ recalls' = recalls (+) SetToBag({[session_id |-> session_id,
                                                 parent_thought |-> parent_thought,
                                                 inst |-> sessions[session_id].inst,
                                                 status0 |-> sessions[session_id].status]})
            /\ ret' = Ret("recall", session_id, sessions[session_id].inst, "Await")

(* recall, line 103: the search failed. *)
RecallFail(call) ==
    /\ BagIn(call, recalls)
    /\ UNCHANGED <<sessions, commits, now, store, started, taken>>
    /\ recalls' = recalls (-) SetToBag({call})
    /\ ret' = [Ret("recall", call.session_id, call.inst, "RecallFailed")
                 EXCEPT !.parent = call.parent_thought, !.status0 = call.status0]

(* Variant: the loop without the budget test of line 119. *)
RECURSIVE insert_recalled_nobreak(_, _, _, _, _, _)
insert_recalled_nobreak(s, memories, k, parent_thought, t, recalled_nodes) ==
    IF k > Len(memories)
    THEN [session |-> s, err |-> "Ok", nodes |-> recalled_nodes]
    ELSE LET r == add_recalled_thought(s, memories[k].content, memories[k].id,
                                       memories[k].score, parent_thought, t)
         IN IF r.err # "Ok"
            THEN [session |-> r.session, err |-> r.err, nodes |-> recalled_nodes]
            ELSE insert_recalled_nobreak(r.session, memories, k + 1, parent_thought, t,
                                         Append(recalled_nodes, r.node))

(* recall, lines 118-136: the loop over the records found. *)
RECURSIVE insert_recalled(_, _, _, _, _, _)
insert_recalled(s, memories, k, parent_thought, t, recalled_nodes) ==
    IF k > Len(memories) \/ thought_count(s) >= max_thoughts
    THEN [session |-> s, err |-> "Ok", nodes |-> recalled_nodes]
    ELSE LET r == add_recalled_thought(s, memories[k].content, memories[k].id,
                                       memories[k].score, parent_thought, t)
         IN IF r.err # "Ok"
            THEN [session |-> r.session, err |-> r.err, nodes |-> recalled_nodes]
            ELSE insert_recalled(r.session, memories, k + 1, parent_thought, t,
                                 Append(recalled_nodes, r.node))

(* Variant: phase 3 counts as activity whatever it inserted. *)
recall_phase3_touching(s, memories, parent_thought, t) ==
    LET r == insert_recalled(s, memories, 1, parent_thought, t, <<>>)
    IN IF r.err # "Ok" THEN r
       ELSE [r EXCEPT !.session.status = "thinking", !.session.last_activity = t]

(* recall, lines 114-141: phase 3 with the records the search returned. *)
recall_phase3(s, memories, parent_thought, t) ==
    LET r == insert_recalled(s, memories, 1, parent_thought, t, <<>>)
    IN IF r.err # "Ok" THEN r
       ELSE [r EXCEPT !.session.status = "thinking"]

RecallEnd(call, memories) ==
    /\ BagIn(call, recalls)
    /\ UNCHANGED <<commits, now, store, started, taken>>
    /\ recalls' = recalls (-) SetToBag({call})
    /\ IF ~Present(call.session_id)
       THEN /\ ret' = [Ret("recall", call.session_id, call.inst, "SessionNotFound")
                         EXCEPT !.parent = call.parent_thought, !.memories = memories,
                                !.status0 = call.status0]
            /\ UNCHANGED sessions
       ELSE LET r == recall_phase3(sessions[call.session_id], memories,
                                   call.parent_thought, now)
            IN /\ sessions' = [sessions EXCEPT ![call.session_id] = r.session]
               /\ ret' = [Ret("recall", call.session_id, call.inst, r.err)
                            EXCEPT !.nodes = r.nodes, !.parent = call.parent_thought,
                                   !.memories = memories, !.status0 = call.status0]

(* Variant: a removal that leaves the session in the map. *)
remove_session_kept(session_id) == sessions

(* sessions.remove(session_id), lines 167, 213, 231 *)
remove_session(session_id) == map_remove(sessions, session_id)

(* commit, lines 165-172: the session leaves the map before anything else. *)
CommitBegin(session_id) ==
    /\ UNCHANGED <<recalls, now, store, started>>
    /\ IF ~Present(session_id)
       THEN /\ ret' = Ret("commit", session_id, 0, "SessionNotFound")
            /\ UNCHANGED <<sessions, commits, taken>>
       ELSE LET session == sessions[session_id]
            IN /\ sessions' = remove_session(session_id)
               /\ taken' = Append(taken, [inst |-> session.inst, op |-> "commit"])
               /\ IF Len(get_conclusions(session)) = 0
                  THEN /\ ret' = Ret("commit", session_id, session.inst, "NoConclusion")
                       /\ UNCHANGED commits
                  ELSE /\ commits' = commits (+) SetToBag({[op |-> "commit",
                                                            session |-> session]})
                       /\ ret' = Ret("commit", session_id, session.inst, "Await")

(* commit, lines 174-185 *)
commit_content(session) ==
    LET conclusion_content == build_conclusion_content(session)
        supporting_evidence == get_supporting_evidence(session)
    IN IF Len(supporting_evidence) = 0 THEN conclusion_content
       ELSE conclusion_content \o "\n\n[Based on: "
                \o JoinStrings(supporting_evidence, "; ", 1) \o "]"

(* commit, lines 187-208: the store's add, then the result. *)
CommitEnd(call, ok) ==
    /\ BagIn(call, commits) /\ call.op = "commit"
    /\ UNCHANGED <<sessions, recalls, now, started, taken>>
    /\ commits' = commits (-) SetToBag({call})
    /\ store' = Append(store, [op |-> "add", content |-> commit_content(call.session),
                               tag |-> None, inst |-> call.session.inst, ok |-> ok])
    /\ ret' = IF ok
              THEN [Ret("commit", call.session.id, call.session.inst, "Ok")
                      EXCEPT !.id = "mem", !.count = thought_count(call.session)]
              ELSE Ret("commit", call.session.id, call.session.inst, "CommitFailed")

Discard(session_id) ==
    /\ UNCHANGED <<recalls, commits, now, store, started>>
    /\ IF ~Present(session_id)
       THEN /\ ret' = Ret("discard", session_id, 0, "SessionNotFound")
            /\ UNCHANGED <<sessions, taken>>
       ELSE LET session == sessions[session_id]
            IN /\ sessions' = remove_session(session_id)
               /\ taken' = Append(taken, [inst |-> session.inst, op |-> "discard"])
               /\ ret' = [Ret("discard", session_id, session.inst, "Ok")
                            EXCEPT !.count = thought_count(session)]

(* Variant: a text that leaves out the initial thought. *)
partial_content_tail(session, reason) ==
    LET thoughts == [i \in 1..(Len(session.graph.nodes) - 1) |->
                        "- [" \o session.graph.nodes[i + 1].thought_type \o "] "
                              \o session.graph.nodes[i + 1].content]
    IN "FastThink session interrupted (" \o reason \o ")\n\nThoughts:\n"
           \o JoinStrings(thoughts, "\n", 1)
           \o "\n\n[Action: Continue research with think_start]"

(* commit_partial, lines 234-249 *)
partial_content(session, reason) ==
    LET thoughts == [i \in 1..Len(session.graph.nodes) |->
                        "- [" \o session.graph.nodes[i].thought_type \o "] "
                              \o session.graph.nodes[i].content]
    IN "FastThink session interrupted (" \o reason \o ")\n\nThoughts:\n"
           \o JoinStrings(thoughts, "\n", 1)
           \o "\n\n[Action: Continue research with think_start]"

CommitPartialBegin(session_id) ==
    /\ UNCHANGED <<recalls, now, store, started>>
    /\ IF ~Present(session_id)
       THEN /\ ret' = Ret("commit_partial", session_id, 0, "SessionNotFound")
            /\ UNCHANGED <<sessions, commits, taken>>
       ELSE LET session == sessions[session_id]
            IN /\ sessions' = remove_session(session_id)
               /\ taken' = Append(taken, [inst |-> session.inst, op |-> "commit_partial"])
               /\ IF Len(session.graph.nodes) = 0
                  THEN /\ ret' = Ret("commit_partial", session_id, session.inst,
                                     "NoConclusion")
                       /\ UNCHANGED commits
                  ELSE /\ commits' = commits (+) SetToBag({[op |-> "commit_partial",
                                                            session |-> session]})
                       /\ ret' = Ret("commit_partial", session_id, session.inst, "Await")

CommitPartialEnd(call, reason, ok) ==
    /\ BagIn(call, commits) /\ call.op = "commit_partial"
    /\ UNCHANGED <<sessions, recalls, now, started, taken>>
    /\ commits' = commits (-) SetToBag({call})
    /\ store' = Append(store, [op |-> "add_with_tags",
                               content |-> partial_content(call.session, reason),
                               tag |-> "incomplete_thought",
                               inst |-> call.session.inst, ok |-> ok])
    /\ ret' = IF ok
              THEN [Ret("commit_partial", call.session.id, call.session.inst, "Ok")
                      EXCEPT !.id = "mem", !.count = thought_count(call.session)]
              ELSE Ret("commit_partial", call.session.id, call.session.inst,
                       "CommitFailed")

(* Variant: a session is stale only after more than session_ttl. *)
is_stale_strict(session, t) == t - session.last_activity > session_ttl

(* cleanup_stale, lines 355-369 *)
is_stale(session, t) == ~(t - session.last_activity < session_ttl)

RECURSIVE TakenBy(_, _)
TakenBy(insts, op) ==
    IF insts = {} THEN <<>>
    ELSE LET i == CHOOSE x \in insts : \A y \in insts : x <= y
         IN <<[inst |-> i, op |-> op]>> \o TakenBy(insts \ {i}, op)

CleanupStale ==
    /\ UNCHANGED <<recalls, commits, now, store, started>>
    /\ LET keep == {id \in DOMAIN sessions : ~is_stale(sessions[id], now)}
           gone == {sessions[id].inst : id \in DOMAIN sessions \ keep}
       IN /\ sessions' = [id \in keep |-> sessions[id]]
          /\ taken' = taken \o TakenBy(gone, "cleanup_stale")
          /\ ret' = [Ret("cleanup_stale", None, 0, "Ok")
                       EXCEPT !.count = Cardinality(DOMAIN sessions) - Cardinality(keep)]

(* The clock is read only through the sessions in the map: it advances      *)
(* while there is one.                                                      *)
Tick ==
    /\ now < MaxTime
    /\ sessions # <<>>
    /\ now' = now + 1
    /\ ret' = Ret("tick", None, 0, "Ok")
    /\ UNCHANGED <<sessions, recalls, commits, store, started, taken>>

(* Variant: asking for the status applies the timeout. *)
session_after_status_eager(session, t) ==
    IF timed_out(session, t) THEN [session EXCEPT !.status = "timed_out"] ELSE session

(* Lines 315-329 take the read lock: the session stays as it is. *)
session_after_status(session, t) == session

session_info(session, t) ==
    [status |-> session.status,
     thought_count |-> thought_count(session),
     entity_count |-> entity_count(session),
     concept_count |-> concept_count(session),
     current_depth |-> session.current_depth,
     elapsed |-> t - session.started_at,
     has_conclusion |-> Len(get_conclusions(session)) > 0]

GetSessionStatus(session_id) ==
    /\ UNCHANGED <<recalls, commits, now, store, started, taken>>
    /\ IF ~Present(session_id)
       THEN /\ ret' = Ret("get_session_status", session_id, 0, "SessionNotFound")
            /\ UNCHANGED sessions
       ELSE /\ sessions' = [sessions EXCEPT
                              ![session_id] = session_after_status(@, now)]
            /\ ret' = [Ret("get_session_status", session_id,
                           sessions[session_id].inst, "Ok")
                         EXCEPT !.info = session_info(sessions[session_id], now)]

(* Lines 340-351: filter_map drops a ref that is not a thought. *)
RECURSIVE thoughts_of(_, _, _)
thoughts_of(s, chain, k) ==
    IF k > Len(chain) THEN <<>>
    ELSE IF has_node(s.graph, chain[k])
         THEN <<chain[k]>> \o thoughts_of(s, chain, k + 1)
         ELSE thoughts_of(s, chain, k + 1)

GetThoughtChain(session_id, thought_idx) ==
    /\ UNCHANGED <<sessions, recalls, commits, now, store, started, taken>>
    /\ ret' = IF ~Present(session_id)
              THEN Ret("get_thought_chain", session_id, 0, "SessionNotFound")
              ELSE [Ret("get_thought_chain", session_id, sessions[session_id].inst, "Ok")
                      EXCEPT !.parent = thought_idx,
                             !.nodes = thoughts_of(sessions[session_id],
                                          get_chain_to_root(sessions[session_id],
                                                            thought_idx), 1)]

ActiveSessionCount ==
    /\ UNCHANGED <<sessions, recalls, commits, now, store, started, taken>>
    /\ ret' = [Ret("active_session_count", None, 0, "Ok")
                 EXCEPT !.count = Cardinality(DOMAIN sessions)]

(* The keys of the HashMap, in the order its iterator happens to give. *)
KeyLists(map) ==
    {ids \in [1..Cardinality(DOMAIN map) -> DOMAIN map] :
        \A i, j \in 1..Cardinality(DOMAIN map) : ids[i] = ids[j] => i = j}

ListSessions ==
    /\ UNCHANGED <<sessions, recalls, commits, now, store, started, taken>>
    /\ \E ids \in KeyLists(sessions) :
          ret' = [Ret("list_sessions", None, 0, "Ok") EXCEPT !.ids = ids]

-----------------------------------------------------------------------------
(* server.rs: the MCP tool handlers over the manager.  A handler's call in  *)
(* flight is a record in commits: op names the point it has reached,        *)
(* session is the session as the handler last saw it.                       *)

(* think_add, lines 244-263: the thought type is mapped, then the engine's  *)
(* add_thought runs under the write lock.  Ok and Timeout leave the handler *)
(* with a second call to make; every other error is the response (298).     *)
ThinkAddBegin(session_id, content, thought_type, parent) ==
    /\ UNCHANGED <<recalls, now, store, started, taken>>
    /\ IF ~Present(session_id)
       THEN /\ ret' = Ret("think_add", session_id, 0, "McpError")
            /\ UNCHANGED <<sessions, commits>>
       ELSE LET r == add_thought(sessions[session_id], content, thought_type,
                                 parent, None, now)
            IN /\ sessions' = [sessions EXCEPT ![session_id] = r.session]
               /\ IF r.err = "Ok"
                  THEN /\ commits' = commits (+) SetToBag({[op |-> "think_add_status",
                                                            session |-> r.session]})
                       /\ ret' = [Ret("think_add", session_id, r.session.inst, "Await")
                                    EXCEPT !.node = r.node, !.parent = parent]
                  ELSE IF r.err = "Timeout"
                  THEN /\ commits' = commits (+) SetToBag({[op |-> "think_add_timeout",
                                                            session |-> r.session]})
                       /\ ret' = [Ret("think_add", session_id, r.session.inst, "Await")
                                    EXCEPT !.parent = parent]
                  ELSE /\ UNCHANGED commits
                       /\ ret' = [Ret("think_add", session_id, r.session.inst, "McpError")
                                    EXCEPT !.parent = parent]

(* think_add, lines 266-277: get_session_status under the read lock, then   *)
(* the response with the thought's index and the session's counts.          *)
ThinkAddStatus(call) ==
    /\ BagIn(call, commits) /\ call.op = "think_add_status"
    /\ UNCHANGED <<sessions, recalls, now, store, started, taken>>
    /\ commits' = commits (-) SetToBag({call})
    /\ ret' = IF ~Present(call.session.id)
              THEN Ret("think_add", call.session.id, call.session.inst, "McpError")
              ELSE [Ret("think_add", call.session.id, call.session.inst, "Ok")
                      EXCEPT !.node = thought_count(call.session),
                             !.count = thought_count(sessions[call.session.id])]

(* think_add, lines 278-282, into commit_partial, lines 229-243: the        *)
(* session under the id leaves the map.                                     *)
ThinkAddSalvage(call) ==
    /\ BagIn(call, commits) /\ call.op = "think_add_timeout"
    /\ UNCHANGED <<recalls, now, store, started>>
    /\ IF ~Present(call.session.id)
       THEN /\ commits' = commits (-) SetToBag({call})
            /\ ret' = Ret("think_add", call.session.id, call.session.inst, "McpError")
            /\ UNCHANGED <<sessions, taken>>
       ELSE LET session == sessions[call.session.id]
            IN /\ sessions' = remove_session(call.session.id)
               /\ taken' = Append(taken, [inst |-> session.inst, op |-> "commit_partial"])
               /\ commits' = (commits (-) SetToBag({call}))
                                (+) SetToBag({[op |-> "think_add_partial",
                                               session |-> session]})
               /\ ret' = Ret("think_add", call.session.id, session.inst, "Await")

(* commit_partial, lines 245-272, back into think_add, lines 284-296: the   *)
(* store's add_with_tags, then the response.                                *)
ThinkAddEnd(call, ok) ==
    /\ BagIn(call, commits) /\ call.op = "think_add_partial"
    /\ UNCHANGED <<sessions, recalls, now, started, taken>>
    /\ commits' = commits (-) SetToBag({call})
    /\ store' = Append(store, [op |-> "add_with_tags",
                               content |-> partial_content(call.session, "timeout"),
                               tag |-> "incomplete_thought",
                               inst |-> call.session.inst, ok |-> ok])
    /\ ret' = IF ok
              THEN [Ret("think_add", call.session.id, call.session.inst,
                        "timeout_committed")
                      EXCEPT !.id = "mem", !.count = thought_count(call.session)]
              ELSE Ret("think_add", call.session.id, call.session.inst, "McpError")

(* think_conclude, lines 327-349: the engine's conclude; its error is the   *)
(* response.                                                                *)
ThinkConclude(session_id, conclusion, supporting_idx) ==
    Conclude(session_id, conclusion, supporting_idx)

(* think_discard, lines 379-394 *)
ThinkDiscard(session_id) == Discard(session_id)

-----------------------------------------------------------------------------
(* What the callers pass in.  Refs holds every thought a session can have,  *)
(* the index its next thought will get, and an index beyond that.           *)

Refs == 1..(max_thoughts + 1)

CanStart(id, n) == Present(id) \/ started < n

CanSuspend(id, n) == Present(id) => Suspended < n

CanLink(id) == Present(id) => Len(sessions[id].graph.edges) < MaxEdges

Supporting == {<<>>, <<1>>, <<2, 1>>, <<1, max_thoughts + 1>>, <<max_thoughts + 1>>}

(* Spec: one session, its clock and the calls that suspend; every ref the   *)
(* callers pass is a thought the session has or could have next.            *)
Next ==
    \/ \E id \in SessionIds : CanStart(id, 1) /\ StartThinking(id, "i")
    \/ \E id \in SessionIds, parent \in {1, 2} :
          AddThought(id, "t", "reasoning", parent, None)
    \/ \E id \in SessionIds, supporting \in {<<1>>, <<2>>} : Conclude(id, "c", supporting)
    \/ \E id \in SessionIds, parent \in {1, 2} :
          CanSuspend(id, MaxCalls) /\ RecallBegin(id, parent)
    \/ \E call \in BagToSet(recalls) : RecallFail(call)
    \/ \E call \in BagToSet(recalls), memories \in StoreResults : RecallEnd(call, memories)
    \/ \E id \in SessionIds : CanSuspend(id, MaxCalls) /\ CommitBegin(id)
    \/ \E call \in BagToSet(commits), ok \in BOOLEAN : CommitEnd(call, ok)
    \/ \E id \in SessionIds : CanSuspend(id, MaxCalls) /\ CommitPartialBegin(id)
    \/ \E call \in BagToSet(commits), ok \in BOOLEAN : CommitPartialEnd(call, "timeout", ok)
    \/ \E id \in SessionIds : Discard(id)
    \/ CleanupStale
    \/ Tick

Spec == Init /\ [][Next]_vars

(* SpecGraph: one session and the operations that build its graph, called   *)
(* with any ref, a thought of the session or not.                           *)
NextGraph ==
    \/ \E id \in SessionIds : CanStart(id, 1) /\ StartThinking(id, "i")
    \/ \E id \in SessionIds, parent \in {NoNode} \cup Refs :
          AddThought(id, "t", "reasoning", parent, None)
    \/ \E id \in SessionIds, supporting \in Supporting : Conclude(id, "c", supporting)
    \/ \E id \in SessionIds, from \in Refs, to \in Refs :
          CanLink(id) /\ LinkThoughts(id, from, to, "supports")
    \/ \E id \in SessionIds, parent \in Refs :
          CanSuspend(id, 1) /\ RecallBegin(id, parent)
    \/ \E call \in BagToSet(recalls), memories \in StoreResults : RecallEnd(call, memories)

SpecGraph == Init /\ [][NextGraph]_vars

(* SpecRestart: a session id that is started again after its session was    *)
(* committed or discarded, while earlier calls on it are still suspended.   *)
NextRestart ==
    \/ \E id \in SessionIds : CanStart(id, MaxStarts) /\ StartThinking(id, "i")
    \/ \E id \in SessionIds : AddThought(id, "t", "reasoning", 1, None)
    \/ \E id \in SessionIds : Conclude(id, "c", <<1>>)
    \/ \E id \in SessionIds : CanSuspend(id, MaxCalls) /\ RecallBegin(id, 1)
    \/ \E call \in BagToSet(recalls) : RecallFail(call)
    \/ \E call \in BagToSet(recalls), memories \in StoreResults : RecallEnd(call, memories)
    \/ \E id \in SessionIds : CanSuspend(id, MaxCalls) /\ CommitBegin(id)
    \/ \E call \in BagToSet(commits), ok \in BOOLEAN : CommitEnd(call, ok)
    \/ \E id \in SessionIds : Discard(id)

SpecRestart == Init /\ [][NextRestart]_vars

Names == {"Rust", "rust", "Go"}

IndexLen(index, thought_idx) ==
    IF thought_idx \in DOMAIN index THEN Len(index[thought_idx]) ELSE 0

CanIndex(id, thought_idx) ==
    Present(id) => /\ IndexLen(sessions[id].thought_to_entities, thought_idx) < MaxIndexLen
                   /\ IndexLen(sessions[id].thought_to_concepts, thought_idx) < MaxIndexLen

(* SpecIntern: one session, its thoughts, and the entities and concepts     *)
(* interned from them under names that differ in case or not at all.        *)
NextIntern ==
    \/ \E id \in SessionIds : CanStart(id, 1) /\ StartThinking(id, "i")
    \/ \E id \in SessionIds : AddThought(id, "t", "reasoning", 1, None)
    \/ \E id \in SessionIds, thought_idx \in 1..2, name \in Names :
          CanIndex(id, thought_idx) /\ ExtractEntity(id, thought_idx, name, "technology")
    \/ \E id \in SessionIds, thought_idx \in 1..2, name \in Names :
          CanIndex(id, thought_idx) /\ MapToConcept(id, thought_idx, name, None)

SpecIntern == Init /\ [][NextIntern]_vars

ManyIds == {"s1", "s2"}

(* SpecIds: two session ids, started at different times, and the calls     *)
(* that remove sessions.                                                    *)
NextIds ==
    \/ \E id \in ManyIds : CanStart(id, MaxStarts) /\ StartThinking(id, "i")
    \/ \E id \in ManyIds : AddThought(id, "t", "reasoning", 1, None)
    \/ \E id \in ManyIds : CanSuspend(id, 1) /\ CommitPartialBegin(id)
    \/ \E call \in BagToSet(commits), ok \in BOOLEAN : CommitPartialEnd(call, "timeout", ok)
    \/ \E id \in ManyIds : Discard(id)
    \/ CleanupStale
    \/ Tick

SpecIds == Init /\ [][NextIds]_vars

(* SpecHost: one session driven through the tool handlers, with the clock  *)
(* and a discard running beside them.                                       *)
NextHost ==
    \/ \E id \in SessionIds : CanStart(id, 1) /\ StartThinking(id, "i")
    \/ \E id \in SessionIds :
          CanSuspend(id, MaxCalls) /\ ThinkAddBegin(id, "t", "reasoning", 1)
    \/ \E call \in BagToSet(commits) : ThinkAddStatus(call)
    \/ \E call \in BagToSet(commits) : ThinkAddSalvage(call)
    \/ \E call \in BagToSet(commits), ok \in BOOLEAN : ThinkAddEnd(call, ok)
    \/ \E id \in SessionIds : ThinkConclude(id, "c", <<1>>)
    \/ \E id \in SessionIds : CanSuspend(id, 1) /\ RecallBegin(id, 1)
    \/ \E call \in BagToSet(recalls), memories \in StoreResults : RecallEnd(call, memories)
    \/ \E id \in SessionIds : ThinkDiscard(id)
    \/ Tick

SpecHost == Init /\ [][NextHost]_vars

(* A handler that has a call to make makes it, and the store answers an     *)
(* add_with_tags with a result or an error.                                 *)
SpecHostFair ==
    /\ SpecHost
    /\ WF_vars(\E call \in BagToSet(commits) : ThinkAddSalvage(call))
    /\ WF_vars(\E call \in BagToSet(commits), ok \in BOOLEAN : ThinkAddEnd(call, ok))

EdgeLabels == {"supports", "contradicts"}

(* SpecLink: one session with thoughts, a conclusion and interned names,    *)
(* and link_thoughts called with any two refs under either label.           *)
NextLink ==
    \/ \E id \in SessionIds : CanStart(id, 1) /\ StartThinking(id, "i")
    \/ \E id \in SessionIds, parent \in {NoNode, 1} :
          AddThought(id, "t", "reasoning", parent, None)
    \/ \E id \in SessionIds : Conclude(id, "c", <<1>>)
    \/ \E id \in SessionIds : CanIndex(id, 1) /\ ExtractEntity(id, 1, "Rust", "technology")
    \/ \E id \in SessionIds : CanIndex(id, 1) /\ MapToConcept(id, 1, "Go", None)
    \/ \E id \in SessionIds, from \in Refs, to \in Refs, edge_type \in EdgeLabels :
          CanLink(id) /\ LinkThoughts(id, from, to, edge_type)

SpecLink == Init /\ [][NextLink]_vars

(* The score of a record is whatever the store computed; the engine reads  *)
(* it as it comes.  In tenths, like certainty: below 0.0, the two ends of   *)
(* the range, the default, and above 1.0.                                   *)
Scores == {-2, 0, 5, 10, 12}

ScoredResults ==
    {<<[id |-> "m7", content |-> "LRU works for bursty", score |-> score]>> :
        score \in Scores}

(* SpecScores: one session that recalls one record of any score. *)
NextScores ==
    \/ \E id \in SessionIds : CanStart(id, 1) /\ StartThinking(id, "i")
    \/ \E id \in SessionIds, parent \in {NoNode, 1} :
          AddThought(id, "t", "reasoning", parent, None)
    \/ \E id \in SessionIds : Conclude(id, "c", <<1>>)
    \/ \E id \in SessionIds : CanSuspend(id, 1) /\ RecallBegin(id, 1)
    \/ \E call \in BagToSet(recalls), memories \in ScoredResults : RecallEnd(call, memories)

SpecScores == Init /\ [][NextScores]_vars

(* SpecReads: sessions under two ids that are built, queried while the     *)
(* clock runs past their timeout, and discarded.                            *)
NextReads ==
    \/ \E id \in ManyIds : CanStart(id, MaxStarts) /\ StartThinking(id, "i")
    \/ \E id \in ManyIds : AddThought(id, "t", "reasoning", 1, None)
    \/ \E id \in ManyIds : Conclude(id, "c", <<1>>)
    \/ \E id \in ManyIds : Discard(id)
    \/ \E id \in ManyIds : GetSessionStatus(id)
    \/ \E id \in ManyIds, thought_idx \in 1..2 : GetThoughtChain(id, thought_idx)
    \/ ActiveSessionCount
    \/ ListSessions
    \/ Tick

SpecReads == Init /\ [][NextReads]_vars

(* SpecRemoval: one session grown by add_thought, conclude and recall, with *)
(* a parent that is a thought or lies beyond the graph, and the three calls *)
(* that take it out of the map and report its size.                         *)
NextRemoval ==
    \/ \E id \in SessionIds : CanStart(id, 1) /\ StartThinking(id, "i")
    \/ \E id \in SessionIds, parent \in {1, max_thoughts + 1} :
          AddThought(id, "t", "reasoning", parent, None)
    \/ \E id \in SessionIds, supporting \in {<<1>>, <<max_thoughts + 1>>} :
          Conclude(id, "c", supporting)
    \/ \E id \in SessionIds : CanSuspend(id, MaxCalls) /\ RecallBegin(id, 1)
    \/ \E call \in BagToSet(recalls), memories \in StoreResults : RecallEnd(call, memories)
    \/ \E id \in SessionIds : CanSuspend(id, MaxCalls) /\ CommitBegin(id)
    \/ \E call \in BagToSet(commits), ok \in BOOLEAN : CommitEnd(call, ok)
    \/ \E id \in SessionIds : CanSuspend(id, MaxCalls) /\ CommitPartialBegin(id)
    \/ \E call \in BagToSet(commits), ok \in BOOLEAN : CommitPartialEnd(call, "timeout", ok)
    \/ \E id \in SessionIds : Discard(id)

SpecRemoval == Init /\ [][NextRemoval]_vars

(* The clock of SpecSweep, which runs on after every limit has passed. *)
TickLate ==
    /\ now < LateTime
    /\ sessions # <<>>
    /\ now' = now + 1
    /\ ret' = Ret("tick", None, 0, "Ok")
    /\ UNCHANGED <<sessions, recalls, commits, store, started, taken>>

(* SpecSweep: a session that is added to, annotated and recalled into      *)
(* while the clock runs past its timeout and its ttl, and the sweep.        *)
NextSweep ==
    \/ \E id \in SessionIds : CanStart(id, 1) /\ StartThinking(id, "i")
    \/ \E id \in SessionIds : AddThought(id, "t", "reasoning", 1, None)
    \/ \E id \in SessionIds : Conclude(id, "c", <<1>>)
    \/ \E id \in SessionIds : CanLink(id) /\ LinkThoughts(id, 1, 1, "supports")
    \/ \E id \in SessionIds : CanIndex(id, 1) /\ ExtractEntity(id, 1, "Rust", "technology")
    \/ \E id \in SessionIds : CanIndex(id, 1) /\ MapToConcept(id, 1, "Go", None)
    \/ \E id \in SessionIds : CanSuspend(id, 1) /\ RecallBegin(id, 1)
    \/ \E call \in BagToSet(recalls), memories \in StoreResults : RecallEnd(call, memories)
    \/ CleanupStale
    \/ TickLate

SpecSweep == Init /\ [][NextSweep]_vars

ThoughtKinds == {"reasoning", "recall", "conclusion"}

(* SpecKinds: one session whose callers choose the kind of each thought,    *)
(* then commit it.                                                          *)
NextKinds ==
    \/ \E id \in SessionIds : CanStart(id, 1) /\ StartThinking(id, "i")
    \/ \E id \in SessionIds, kind \in ThoughtKinds, parent \in {NoNode, 1} :
          AddThought(id, "t", kind, parent, None)
    \/ \E id \in SessionIds, supporting \in {<<>>, <<1>>, <<2>>} :
          Conclude(id, "c", supporting)
    \/ \E id \in SessionIds : CanSuspend(id, 1) /\ RecallBegin(id, 1)
    \/ \E call \in BagToSet(recalls), memories \in StoreResults : RecallEnd(call, memories)
    \/ \E id \in SessionIds : CanSuspend(id, 1) /\ CommitBegin(id)
    \/ \E call \in BagToSet(commits), ok \in BOOLEAN : CommitEnd(call, ok)

SpecKinds == Init /\ [][NextKinds]_vars

-----------------------------------------------------------------------------
(* Properties.  A step whose ret'.op is an operation's name is a step of    *)
(* that operation: every action writes its own name there.                  *)

Terminal(status) == status \in {"timed_out", "overflow"}

Min(a, b) == IF a <= b THEN a ELSE b

AddOps == {"add_thought", "conclude"}

(* The step is add_thought or conclude on the session under id. *)
AddOn(id) == ret'.op \in AddOps /\ ret'.session_id = id

(* The session under id is the same session object after the step. *)
Stays(id) == id \in DOMAIN sessions' /\ sessions'[id].inst = sessions[id].inst

Elapsed(id) == now - sessions[id].started_at > thinking_timeout

(* C1, as stated: a session never holds more than max_thoughts thoughts,   *)
(* and add_thought or conclude on a session that holds max_thoughts fails   *)
(* with TooManyThoughts and leaves the graph as it was.                     *)
C1_Original ==
    [][/\ \A id \in DOMAIN sessions' :
             Len(sessions'[id].graph.nodes) <= max_thoughts
       /\ \A id \in DOMAIN sessions :
             (AddOn(id) /\ Len(sessions[id].graph.nodes) = max_thoughts)
                => /\ ret'.err = "TooManyThoughts"
                   /\ Stays(id)
                   /\ sessions'[id].graph = sessions[id].graph]_vars

(* C1, amended: a session never holds more than max_thoughts thoughts, and  *)
(* add_thought or conclude on a session that holds max_thoughts inserts     *)
(* nothing and fails: with Timeout when thinking_timeout has elapsed since  *)
(* the start, with TooManyThoughts otherwise.                               *)
C1_ThoughtBudget ==
    [][/\ \A id \in DOMAIN sessions' :
             Len(sessions'[id].graph.nodes) <= max_thoughts
       /\ \A id \in DOMAIN sessions :
             (AddOn(id) /\ Len(sessions[id].graph.nodes) = max_thoughts)
                => /\ ret'.err = IF Elapsed(id) THEN "Timeout" ELSE "TooManyThoughts"
                   /\ Stays(id)
                   /\ sessions'[id].graph = sessions[id].graph]_vars

(* An add_thought was refused with TooManyThoughts on a full session. *)
C1_Witness ==
    /\ ret.op = "add_thought" /\ ret.err = "TooManyThoughts"
    /\ Present(ret.session_id)
    /\ Len(sessions[ret.session_id].graph.nodes) = max_thoughts

(* C2: while a session's status is TimedOut or Overflow no operation        *)
(* changes its graph, its entities, its concepts or its reverse indexes.    *)
C2_TerminalBlocksMutation ==
    [][\A id \in DOMAIN sessions :
          (Terminal(sessions[id].status) /\ Stays(id))
             => /\ sessions'[id].graph = sessions[id].graph
                /\ sessions'[id].entities = sessions[id].entities
                /\ sessions'[id].concepts = sessions[id].concepts
                /\ sessions'[id].thought_to_entities = sessions[id].thought_to_entities
                /\ sessions'[id].thought_to_concepts = sessions[id].thought_to_concepts]_vars

(* C3: a status of TimedOut or Overflow never changes while the session     *)
(* lives.                                                                   *)
C3_TerminalAbsorbing ==
    [][\A id \in DOMAIN sessions :
          (Terminal(sessions[id].status) /\ Stays(id))
             => sessions'[id].status = sessions[id].status]_vars

(* C4: once more than thinking_timeout has passed since a session started,  *)
(* every add_thought and conclude on it fails with Timeout, leaves the      *)
(* status TimedOut and inserts nothing; the elapsed time only grows, since  *)
(* started_at is never written and the clock never goes back.               *)
C4_TimeoutOnAdd ==
    [][/\ now' >= now
       /\ \A id \in DOMAIN sessions :
             /\ Stays(id) => sessions'[id].started_at = sessions[id].started_at
             /\ (AddOn(id) /\ Elapsed(id))
                   => /\ ret'.err = "Timeout"
                      /\ Stays(id)
                      /\ sessions'[id].status = "timed_out"
                      /\ sessions'[id].graph = sessions[id].graph]_vars

(* A conclude came after the timeout and was refused. *)
C4_Witness ==
    /\ ret.op = "conclude" /\ ret.err = "Timeout"
    /\ Present(ret.session_id)
    /\ sessions[ret.session_id].status = "timed_out"
    /\ now - sessions[ret.session_id].started_at > thinking_timeout

Writes(inst) == Cardinality({k \in 1..Len(store) : store[k].inst = inst})

Pending(inst) ==
    LET calls == {call \in BagToSet(commits) : call.session.inst = inst}
    IN IF calls = {} THEN 0
       ELSE BagCardinality([call \in calls |-> CopiesIn(call, commits)])

Takers(inst) == {k \in 1..Len(taken) : taken[k].inst = inst}

(* C6: whatever commit, commit_partial, discard and cleanup_stale calls     *)
(* race on a session, one of them takes it out of the map, and the store    *)
(* is written for it at most once, by that call if it is a commit or a      *)
(* commit_partial.                                                          *)
C6_SingleWriter ==
    \A inst \in 1..started :
       /\ Cardinality(Takers(inst)) <= 1
       /\ Writes(inst) + Pending(inst) <= 1
       /\ Writes(inst) + Pending(inst) = 1
             => \E k \in Takers(inst) : taken[k].op \in {"commit", "commit_partial"}
       /\ \A k \in 1..Len(store) :
             store[k].inst = inst
                => \E j \in Takers(inst) :
                      taken[j].op = IF store[k].op = "add" THEN "commit"
                                    ELSE "commit_partial"

(* A second call found the session gone while the first one's write was     *)
(* still on its way to the store.                                           *)
C6_Witness ==
    /\ ret.op \in {"commit", "commit_partial", "discard"}
    /\ ret.err = "SessionNotFound"
    /\ \E call \in BagToSet(commits) : call.session.id = ret.session_id

(* The step is a recall whose phase 3 ran on the session it found. *)
RecallRan ==
    /\ ret'.op = "recall"
    /\ ret'.err \notin {"Await", "RecallFailed", "SessionNotFound"}
    /\ ret'.session_id \in DOMAIN sessions
    /\ ret'.session_id \in DOMAIN sessions'

(* The step appended the first k records found as Recall thoughts, in the   *)
(* store's order, and returned their indices.                               *)
InsertedPrefix(k) ==
    LET s == sessions[ret'.session_id]
        s2 == sessions'[ret'.session_id]
        c == Len(s.graph.nodes)
    IN /\ Len(s2.graph.nodes) = c + k
       /\ SubSeq(s2.graph.nodes, 1, c) = s.graph.nodes
       /\ ret'.nodes = [j \in 1..k |-> c + j]
       /\ \A j \in 1..k :
             /\ s2.graph.nodes[c + j].thought_type = "recall"
             /\ s2.graph.nodes[c + j].content = ret'.memories[j].content
             /\ s2.graph.nodes[c + j].source_memory_id = ret'.memories[j].id

RecallRoom ==
    Min(Len(ret'.memories), max_thoughts - Len(sessions[ret'.session_id].graph.nodes))

(* C7, as stated: a recall that finds n records for a session of c thoughts *)
(* returns Ok with exactly min(n, max_thoughts - c) new Recall thoughts, in *)
(* the store's order, and does not set Overflow.                            *)
C7_Original ==
    [][RecallRan
          => /\ ret'.err = "Ok"
             /\ InsertedPrefix(RecallRoom)
             /\ sessions'[ret'.session_id].status # "overflow"]_vars

(* No insertion of the recall can fail: there is nothing to insert, or the  *)
(* timeout has not elapsed and the parent is a thought above max_depth.     *)
RecallInsertable ==
    LET s == sessions[ret'.session_id]
    IN \/ RecallRoom = 0
       \/ /\ ~Elapsed(ret'.session_id)
          /\ ret'.parent \in 1..Len(s.graph.nodes)
          /\ s.graph.nodes[ret'.parent].depth < max_depth

(* C7, amended: a recall that finds n records for a session of c thoughts   *)
(* returns Ok with exactly min(n, max_thoughts - c) new Recall thoughts, in *)
(* the store's order, and leaves the status Thinking, provided that no      *)
(* insertion fails: thinking_timeout has not elapsed and the parent is a    *)
(* thought of the session at a depth below max_depth.  Whenever it returns  *)
(* Ok it has inserted exactly that prefix.                                  *)
C7_RecallPrefix ==
    [][RecallRan
          => /\ RecallInsertable => ret'.err = "Ok"
             /\ ret'.err = "Ok"
                   => /\ InsertedPrefix(RecallRoom)
                      /\ sessions'[ret'.session_id].status = "thinking"]_vars

(* A recall found two records, had room for one, and returned Ok. *)
C7_Witness ==
    /\ ret.op = "recall" /\ ret.err = "Ok"
    /\ Len(ret.memories) = 2 /\ Len(ret.nodes) = 1
    /\ Present(ret.session_id)
    /\ Len(sessions[ret.session_id].graph.nodes) = max_thoughts
    /\ sessions[ret.session_id].status = "thinking"

(* C8: when recall returns RecallFailed the session has the status it had   *)
(* when recall was called.                                                  *)
C8_FailedRecallUntouched ==
    (/\ ret.op = "recall" /\ ret.err = "RecallFailed"
     /\ Present(ret.session_id)
     /\ sessions[ret.session_id].inst = ret.inst)
       => sessions[ret.session_id].status = ret.status0

(* C9: when a recall whose search succeeded has returned, with Ok or with   *)
(* an insertion error, and no other recall is suspended on the session, the *)
(* status is not NeedsRecall; after Ok it is Thinking.                      *)
C9_RecallRestoresStatus ==
    (/\ ret.op = "recall"
     /\ ret.err \notin {"Await", "RecallFailed", "SessionNotFound"}
     /\ Present(ret.session_id)
     /\ sessions[ret.session_id].inst = ret.inst
     /\ \A call \in BagToSet(recalls) : call.session_id # ret.session_id)
       => /\ sessions[ret.session_id].status # "needs_recall"
          /\ ret.err = "Ok" => sessions[ret.session_id].status = "thinking"

(* C10: both endpoints of every edge of a session's graph are thoughts of   *)
(* that graph, whatever refs the callers passed.                            *)
C10_NoDanglingEdges ==
    \A id \in DOMAIN sessions :
       \A k \in 1..Len(sessions[id].graph.edges) :
          /\ sessions[id].graph.edges[k].source \in 1..Len(sessions[id].graph.nodes)
          /\ sessions[id].graph.edges[k].target \in 1..Len(sessions[id].graph.nodes)

(* A conclude was given a supporting ref that is no thought of the session, *)
(* after its first one was linked.                                          *)
C10_Witness ==
    /\ ret.op = "conclude" /\ ret.err = "Panic"
    /\ Present(ret.session_id)
    /\ \E k \in 1..Len(sessions[ret.session_id].graph.edges) :
          sessions[ret.session_id].graph.edges[k].target
             = Len(sessions[ret.session_id].graph.nodes)

(* C11: every thought of kind Recall, in every session, carries a source   *)
(* memory id, whatever operations were called and with whatever kind.       *)
C11_RecallHasSource ==
    \A id \in DOMAIN sessions :
       \A k \in 1..Len(sessions[id].graph.nodes) :
          sessions[id].graph.nodes[k].thought_type = "recall"
             => sessions[id].graph.nodes[k].source_memory_id # None

(* The greatest depth among the thoughts of a graph, 0 for none. *)
DeepestThought(g) ==
    IF Len(g.nodes) = 0 THEN 0
    ELSE CHOOSE d \in {g.nodes[k].depth : k \in 1..Len(g.nodes)} :
            \A k \in 1..Len(g.nodes) : g.nodes[k].depth <= d

(* C12: after every operation, failed or not, current_depth of a session    *)
(* is the greatest depth among its thoughts.                                *)
C12_CurrentDepth ==
    \A id \in DOMAIN sessions :
       sessions[id].current_depth = DeepestThought(sessions[id].graph)

(* An operation failed on a session that holds a thought below the root. *)
C12_Witness ==
    /\ ret.err \in {"TooDeep", "Panic", "TooManyThoughts"}
    /\ Present(ret.session_id)
    /\ sessions[ret.session_id].current_depth > 0
    /\ \E k \in 1..Len(sessions[ret.session_id].graph.nodes) :
          sessions[ret.session_id].graph.nodes[k].depth
             = sessions[ret.session_id].current_depth

(* Two names are the same but for the case of their letters when they     *)
(* have the same case folding.                                              *)
Folded(name) ==
    IF name \in {"Rust", "RUST", "rust"} THEN "rust"
    ELSE IF name \in {"Go", "GO", "go"} THEN "go"
    ELSE name

(* The step is extract_entity / map_to_concept on the session under id. *)
InternOn(id, op) == ret'.op = op /\ ret'.session_id = id

IsThought(id, thought_idx) == thought_idx \in 1..Len(sessions[id].graph.nodes)

TablesWithin ==
    \A id \in DOMAIN sessions' :
       /\ Cardinality(DOMAIN sessions'[id].entities) <= max_entities
       /\ Cardinality(DOMAIN sessions'[id].concepts) <= max_concepts

(* C13, as stated: the tables never exceed max_entities / max_concepts, and *)
(* interning an unseen name into a full table fails TooManyEntities /       *)
(* TooManyConcepts and changes nothing.                                     *)
C13_Original ==
    [][/\ TablesWithin
       /\ \A id \in DOMAIN sessions :
             /\ (/\ InternOn(id, "extract_entity")
                 /\ Folded(ret'.name) \notin DOMAIN sessions[id].entities
                 /\ Cardinality(DOMAIN sessions[id].entities) = max_entities)
                   => ret'.err = "TooManyEntities" /\ sessions' = sessions
             /\ (/\ InternOn(id, "map_to_concept")
                 /\ Folded(ret'.name) \notin DOMAIN sessions[id].concepts
                 /\ Cardinality(DOMAIN sessions[id].concepts) = max_concepts)
                   => ret'.err = "TooManyConcepts" /\ sessions' = sessions]_vars

(* C13, amended: the tables never exceed max_entities / max_concepts, and   *)
(* interning an unseen name into a full table changes nothing and fails:    *)
(* with ThoughtNotFound when the thought ref is no thought of the session,  *)
(* with TooManyEntities / TooManyConcepts otherwise.                        *)
C13_TableBounds ==
    [][/\ TablesWithin
       /\ \A id \in DOMAIN sessions :
             /\ (/\ InternOn(id, "extract_entity")
                 /\ Folded(ret'.name) \notin DOMAIN sessions[id].entities
                 /\ Cardinality(DOMAIN sessions[id].entities) = max_entities)
                   => /\ ret'.err = IF IsThought(id, ret'.parent) THEN "TooManyEntities"
                                    ELSE "ThoughtNotFound"
                      /\ sessions' = sessions
             /\ (/\ InternOn(id, "map_to_concept")
                 /\ Folded(ret'.name) \notin DOMAIN sessions[id].concepts
                 /\ Cardinality(DOMAIN sessions[id].concepts) = max_concepts)
                   => /\ ret'.err = IF IsThought(id, ret'.parent) THEN "TooManyConcepts"
                                    ELSE "ThoughtNotFound"
                      /\ sessions' = sessions]_vars

(* A second entity was refused and the first one is still in the table. *)
C13_Witness ==
    /\ ret.op = "extract_entity" /\ ret.err = "TooManyEntities"
    /\ Present(ret.session_id)
    /\ DOMAIN sessions[ret.session_id].entities = {"rust"}
    /\ ret.name = "Go"

Occurrences(seq, x) == Cardinality({k \in 1..Len(seq) : seq[k] = x})

(* C14: extract_entity (map_to_concept) of a name that is in the table but  *)
(* for the case of its letters succeeds, full table or not, returns the id  *)
(* the record got when it was created, leaves the count as it is, and       *)
(* leaves the thought exactly once in the record's mentions (linked         *)
(* thoughts), unchanged if the thought was already there.  A record's id    *)
(* never changes, and the call that creates a record returns that id.       *)
C14_InternIdempotent ==
    [][\A id \in DOMAIN sessions :
          Stays(id) =>
            LET s == sessions[id]
                s2 == sessions'[id]
                key == Folded(ret'.name)
                t == ret'.parent
            IN /\ \A k \in DOMAIN s.entities :
                     k \in DOMAIN s2.entities /\ s2.entities[k].id = s.entities[k].id
               /\ \A k \in DOMAIN s.concepts :
                     k \in DOMAIN s2.concepts /\ s2.concepts[k].id = s.concepts[k].id
               /\ (InternOn(id, "extract_entity") /\ IsThought(id, t))
                     => IF key \in DOMAIN s.entities
                        THEN /\ ret'.err = "Ok"
                             /\ ret'.id = s.entities[key].id
                             /\ DOMAIN s2.entities = DOMAIN s.entities
                             /\ Occurrences(s2.entities[key].mentions, t) = 1
                             /\ Occurrences(s.entities[key].mentions, t) = 1
                                   => s2.entities[key].mentions = s.entities[key].mentions
                        ELSE ret'.err = "Ok"
                                => /\ key \in DOMAIN s2.entities
                                   /\ ret'.id = s2.entities[key].id
               /\ (InternOn(id, "map_to_concept") /\ IsThought(id, t))
                     => IF key \in DOMAIN s.concepts
                        THEN /\ ret'.err = "Ok"
                             /\ ret'.id = s.concepts[key].id
                             /\ DOMAIN s2.concepts = DOMAIN s.concepts
                             /\ Occurrences(s2.concepts[key].related_thoughts, t) = 1
                             /\ Occurrences(s.concepts[key].related_thoughts, t) = 1
                                   => s2.concepts[key].related_thoughts
                                         = s.concepts[key].related_thoughts
                        ELSE ret'.err = "Ok"
                                => /\ key \in DOMAIN s2.concepts
                                   /\ ret'.id = s2.concepts[key].id]_vars

(* "rust" was interned for a thought that "Rust" had been interned for, on  *)
(* a full table: one entity, one mention, two index entries.                *)
C14_Witness ==
    /\ ret.op = "extract_entity" /\ ret.err = "Ok" /\ ret.name = "rust"
    /\ Present(ret.session_id)
    /\ LET s == sessions[ret.session_id]
       IN /\ DOMAIN s.entities = {"rust"}
          /\ Cardinality(DOMAIN s.entities) = max_entities
          /\ s.entities["rust"].name = "Rust"
          /\ ret.id = s.entities["rust"].id
          /\ s.entities["rust"].mentions = <<ret.parent>>
          /\ ret.parent \in DOMAIN s.thought_to_entities
          /\ s.thought_to_entities[ret.parent] = <<"rust", "rust">>

(* C15: in every session the chain of the root is the root alone, and the  *)
(* chain of every thought begins with the root and ends with the thought.   *)
C15_ChainToRoot ==
    \A id \in DOMAIN sessions :
       LET s == sessions[id]
       IN /\ get_chain_to_root(s, s.root_thought) = <<s.root_thought>>
          /\ \A x \in 1..Len(s.graph.nodes) :
                LET chain == get_chain_to_root(s, x)
                IN chain[1] = s.root_thought /\ chain[Len(chain)] = x

(* C16: start_thinking on an id that is in the map fails                  *)
(* SessionAlreadyExists and changes no session; on an id that is not, it    *)
(* succeeds, adds one session holding the initial thought and changes no    *)
(* other.  So of the calls on one id that the lock puts in some order only  *)
(* the first succeeds, and the map holds one session per id started and     *)
(* not yet removed.                                                         *)
C16_UniqueIds ==
    [][/\ ret'.op = "start_thinking"
          => IF ret'.session_id \in DOMAIN sessions
             THEN ret'.err = "SessionAlreadyExists" /\ sessions' = sessions
             ELSE /\ ret'.err = "Ok"
                  /\ DOMAIN sessions' = DOMAIN sessions \cup {ret'.session_id}
                  /\ \A id \in DOMAIN sessions : sessions'[id] = sessions[id]
                  /\ Len(sessions'[ret'.session_id].graph.nodes) = 1
                  /\ sessions'[ret'.session_id].graph.nodes[1].thought_type = "initial"
                  /\ sessions'[ret'.session_id].status = "thinking"
       /\ Cardinality(DOMAIN sessions') = started' - Len(taken')
       /\ \A id \in DOMAIN sessions' : sessions'[id].id = id]_vars

(* A start_thinking was refused while two sessions were live. *)
C16_Witness ==
    /\ ret.op = "start_thinking" /\ ret.err = "SessionAlreadyExists"
    /\ Cardinality(DOMAIN sessions) = 2
    /\ started = 2

(* No write, done or on its way, for a session that cleanup_stale removed. *)
SweptUnwritten ==
    \A k \in 1..Len(taken) :
       taken[k].op = "cleanup_stale"
          => Writes(taken[k].inst) + Pending(taken[k].inst) = 0

(* C17: cleanup_stale removes exactly the sessions whose last activity is   *)
(* session_ttl or more in the past, returns how many it removed, leaves     *)
(* every other session as it was, and writes nothing to the store, then or  *)
(* later, for the sessions it removed.                                      *)
C17_CleanupStale ==
    [][/\ ret'.op = "cleanup_stale"
          => /\ DOMAIN sessions' = {id \in DOMAIN sessions :
                                      now - sessions[id].last_activity < session_ttl}
             /\ \A id \in DOMAIN sessions' : sessions'[id] = sessions[id]
             /\ ret'.count = Cardinality(DOMAIN sessions \ DOMAIN sessions')
             /\ store' = store /\ commits' = commits
       /\ SweptUnwritten']_vars

(* cleanup_stale removed one session and kept a younger one. *)
C17_Witness ==
    /\ ret.op = "cleanup_stale" /\ ret.count = 1
    /\ Cardinality(DOMAIN sessions) = 1
    /\ \E k \in 1..Len(taken) : taken[k].op = "cleanup_stale"

(* The step tries to insert a thought under ret'.parent in the session     *)
(* under id: an add_thought, a conclude, or a recall with a record to       *)
(* insert.                                                                  *)
InsertsUnderParent(id) ==
    \/ AddOn(id)
    \/ /\ ret'.op = "recall" /\ ret'.session_id = id
       /\ ret'.err \notin {"Await", "RecallFailed", "SessionNotFound"}
       /\ Len(ret'.memories) > 0

ParentAtMaxDepth(id) ==
    /\ ret'.parent \in 1..Len(sessions[id].graph.nodes)
    /\ sessions[id].graph.nodes[ret'.parent].depth = max_depth

DepthsWithin ==
    \A id \in DOMAIN sessions' :
       /\ sessions'[id].current_depth <= max_depth
       /\ \A k \in 1..Len(sessions'[id].graph.nodes) :
             sessions'[id].graph.nodes[k].depth <= max_depth

(* C18, as stated: an add_thought, conclude or recall insertion under a     *)
(* parent at depth max_depth fails TooDeep and leaves the status and the    *)
(* graph as they were; no thought and no current_depth exceeds max_depth.   *)
C18_Original ==
    [][/\ DepthsWithin
       /\ \A id \in DOMAIN sessions :
             (InsertsUnderParent(id) /\ ParentAtMaxDepth(id))
                => /\ ret'.err = "TooDeep"
                   /\ Stays(id)
                   /\ sessions'[id].status = sessions[id].status
                   /\ sessions'[id].graph = sessions[id].graph]_vars

(* C18, amended: such an insertion inserts nothing.  A recall on a full     *)
(* session inserts nothing and returns Ok.  Otherwise, after                *)
(* thinking_timeout the call fails Timeout (status TimedOut); on a full     *)
(* session add_thought and conclude fail TooManyThoughts (status            *)
(* Overflow); in every other case the call fails TooDeep and leaves the     *)
(* status as it was.  No thought and no current_depth exceeds max_depth.    *)
C18_DepthLimit ==
    [][/\ DepthsWithin
       /\ \A id \in DOMAIN sessions :
             (InsertsUnderParent(id) /\ ParentAtMaxDepth(id))
                => /\ Stays(id)
                   /\ sessions'[id].graph = sessions[id].graph
                   /\ IF ret'.op = "recall"
                         /\ Len(sessions[id].graph.nodes) >= max_thoughts
                      THEN ret'.err = "Ok" /\ ret'.nodes = <<>>
                      ELSE IF Elapsed(id)
                      THEN ret'.err = "Timeout" /\ sessions'[id].status = "timed_out"
                      ELSE IF Len(sessions[id].graph.nodes) >= max_thoughts
                      THEN /\ ret'.err = "TooManyThoughts"
                           /\ sessions'[id].status = "overflow"
                      ELSE /\ ret'.err = "TooDeep"
                           /\ sessions'[id].status = sessions[id].status]_vars

(* A conclude under a thought at max_depth was refused with TooDeep. *)
C18_Witness ==
    /\ ret.op = "conclude" /\ ret.err = "TooDeep"
    /\ Present(ret.session_id)
    /\ sessions[ret.session_id].graph.nodes[ret.parent].depth = max_depth
    /\ sessions[ret.session_id].status = "thinking"

(* The Conclusion thoughts of a session, and those that conclude wrote:    *)
(* conclude is the only operation given the content "c".                    *)
ConclusionThoughts(session) ==
    {k \in 1..Len(session.graph.nodes) :
        session.graph.nodes[k].thought_type = "conclusion"}

ConcludedThoughts(session) ==
    {k \in ConclusionThoughts(session) : session.graph.nodes[k].content = "c"}

(* The first half of commit on a present session: the session leaves the    *)
(* map; with a Conclusion thought the store call is issued, without one     *)
(* the call fails NoConclusion and no store call is issued.                 *)
CommitRemovalStep ==
    (ret'.op = "commit" /\ ret'.err \in {"Await", "NoConclusion"})
       => /\ Present(ret'.session_id)
          /\ ret'.session_id \notin DOMAIN sessions'
          /\ store' = store
          /\ LET session == sessions[ret'.session_id]
             IN IF ConclusionThoughts(session) # {}
                THEN /\ ret'.err = "Await"
                     /\ commits' = commits (+) SetToBag({[op |-> "commit",
                                                          session |-> session]})
                ELSE /\ ret'.err = "NoConclusion"
                     /\ commits' = commits

(* The store's add of a commit: one call, for a removed session that holds  *)
(* a Conclusion thought.                                                    *)
CommitStoreStep ==
    (ret'.op = "commit" /\ ret'.err \in {"Ok", "CommitFailed"})
       => \E call \in BagToSet(commits) :
             /\ commits' = commits (-) SetToBag({call})
             /\ ConclusionThoughts(call.session) # {}
             /\ Len(store') = Len(store) + 1
             /\ store'[Len(store')].op = "add"
             /\ store'[Len(store')].inst = call.session.inst

NoOtherStoreAdd ==
    (store' # store /\ store'[Len(store')].op = "add") => ret'.op = "commit"

RECURSIVE ExpectedText(_, _, _, _, _, _)
ExpectedText(nodes, k, concl, nc, evid, nr) ==
    IF k > Len(nodes)
    THEN IF nr = 0 THEN concl ELSE concl \o "\n\n[Based on: " \o evid \o "]"
    ELSE LET thought == nodes[k]
         IN IF thought.thought_type = "conclusion"
            THEN ExpectedText(nodes, k + 1,
                              IF nc = 0 THEN thought.content
                              ELSE concl \o "\n" \o thought.content,
                              nc + 1, evid, nr)
            ELSE IF thought.thought_type = "recall"
            THEN LET source_id == IF thought.source_memory_id = None THEN "unknown"
                                  ELSE thought.source_memory_id
                     item == "[" \o source_id \o "] " \o thought.content
                 IN ExpectedText(nodes, k + 1, concl, nc,
                                 IF nr = 0 THEN item ELSE evid \o "; " \o item,
                                 nr + 1)
            ELSE ExpectedText(nodes, k + 1, concl, nc, evid, nr)

(* C20: the session a commit carries to the store is the session as it was  *)
(* removed; the text passed to the store's add is the Conclusion contents   *)
(* in insertion order joined by newline, followed by                        *)
(* "\n\n[Based on: e1; e2; ...]" exactly when the session holds a Recall    *)
(* thought, the e_i being "[source_id] content" of every Recall thought in  *)
(* insertion order, listed as supporting or not; thoughts_processed of a    *)
(* successful commit is the number of thoughts of the removed session.      *)
C20_CommitContent ==
    [][/\ (ret'.op = "commit" /\ ret'.err = "Await")
             => commits' = commits (+) SetToBag({[op |-> "commit",
                                                  session |-> sessions[ret'.session_id]]})
       /\ (ret'.op = "commit" /\ ret'.err \in {"Ok", "CommitFailed"})
             => \E call \in BagToSet(commits) :
                   /\ commits' = commits (-) SetToBag({call})
                   /\ Len(store') = Len(store) + 1
                   /\ store'[Len(store')].op = "add"
                   /\ store'[Len(store')].content =
                         ExpectedText(call.session.graph.nodes, 1, "", 0, "", 0)
                   /\ ret'.err = "Ok"
                         => ret'.count = Len(call.session.graph.nodes)]_vars

(* A commit succeeded on a session holding a recalled thought that the      *)
(* conclusion did not list as supporting: the text carries the suffix.      *)
C20_Witness ==
    /\ ret.op = "commit" /\ ret.err = "Ok" /\ ret.count = max_thoughts
    /\ Len(store) > 0
    /\ store[Len(store)].content = "c\n\n[Based on: [m7] LRU works for bursty]"

(* A commit succeeded on a session without Recall thoughts: the text is the *)
(* two conclusions alone.                                                   *)
CommitWithoutEvidence ==
    /\ ret.op = "commit" /\ ret.err = "Ok"
    /\ Len(store) > 0
    /\ store[Len(store)].content = "c\nc"

Statuses == {"thinking", "needs_recall", "decided", "timed_out", "overflow"}

(* One "- [kind] content" line per thought, first thought first. *)
RECURSIVE Bullets(_, _)
Bullets(nodes, k) ==
    IF k > Len(nodes) THEN ""
    ELSE (IF k = 1 THEN "" ELSE "\n")
            \o "- [" \o nodes[k].thought_type \o "] " \o nodes[k].content
            \o Bullets(nodes, k + 1)

(* C21: commit_partial on a present session, whatever its status, removes   *)
(* it and issues one add_with_tags for it, with the tag                     *)
(* "incomplete_thought" and a text that lists every thought of the removed  *)
(* session, one "- [kind] content" line each, in insertion order; it never  *)
(* fails NoConclusion, with or without a Conclusion thought.                *)
C21_PartialCommit ==
    [][/\ (ret'.op = "commit_partial" /\ Present(ret'.session_id)
             /\ ret'.err \notin {"Ok", "CommitFailed"})
             => /\ sessions[ret'.session_id].status \in Statuses
                /\ ret'.err = "Await"
                /\ ret'.session_id \notin DOMAIN sessions'
                /\ store' = store
                /\ commits' = commits (+) SetToBag({[op |-> "commit_partial",
                                                     session |-> sessions[ret'.session_id]]})
       /\ (ret'.op = "commit_partial" /\ ret'.err \in {"Ok", "CommitFailed"})
             => \E call \in BagToSet(commits) :
                   /\ call.op = "commit_partial"
                   /\ commits' = commits (-) SetToBag({call})
                   /\ Len(store') = Len(store) + 1
                   /\ SubSeq(store', 1, Len(store)) = store
                   /\ store'[Len(store')].op = "add_with_tags"
                   /\ store'[Len(store')].tag = "incomplete_thought"
                   /\ store'[Len(store')].inst = call.session.inst
                   /\ store'[Len(store')].content =
                         "FastThink session interrupted (timeout)\n\nThoughts:\n"
                            \o Bullets(call.session.graph.nodes, 1)
                            \o "\n\n[Action: Continue research with think_start]"
       /\ (store' # store /\ store'[Len(store')].op = "add_with_tags")
             => ret'.op = "commit_partial"]_vars

(* A commit_partial saved a session of three thoughts that held no          *)
(* Conclusion thought.                                                      *)
C21_Witness ==
    /\ ret.op = "commit_partial" /\ ret.err = "Ok" /\ ret.count = 3
    /\ Len(store) > 0
    /\ store[Len(store)].tag = "incomplete_thought"
    /\ store[Len(store)].content =
          "FastThink session interrupted (timeout)\n\nThoughts:\n"
             \o "- [initial] i\n- [reasoning] t\n- [recall] LRU works for bursty"
             \o "\n\n[Action: Continue research with think_start]"

(* A commit_partial has removed a session of the given status. *)
PartialTook(status) ==
    \E call \in BagToSet(commits) :
       call.op = "commit_partial" /\ call.session.status = status

PartialTookTimedOut == PartialTook("timed_out")

PartialTookOverflow == PartialTook("overflow")

PartialTookDecided == PartialTook("decided")

PartialTookNeedsRecall == PartialTook("needs_recall")

(* Handler calls in flight, by the point they have reached. *)
HostCalls(op) == {call \in BagToSet(commits) : call.op = op}

(* The step takes the call out of commits, or puts it in. *)
Consumes(call) == CopiesIn(call, commits') < CopiesIn(call, commits)

Issues(call) == CopiesIn(call, commits') > CopiesIn(call, commits)

SalvagePending == HostCalls("think_add_timeout") \cup HostCalls("think_add_partial") # {}

(* think_add's first step: the handler's own step that consumes no call. *)
ThinkAddCalls(id) ==
    /\ ret'.op = "think_add" /\ ret'.session_id = id
    /\ \A call \in BagToSet(commits) : ~Consumes(call)

TimeoutSalvageSteps ==
    /\ \A id \in DOMAIN sessions :
          (ThinkAddCalls(id) /\ Elapsed(id))
             => /\ ret'.err = "Await"
                /\ sessions'[id].status = "timed_out"
                /\ store' = store
                /\ commits' = commits (+) SetToBag({[op |-> "think_add_timeout",
                                                     session |-> sessions'[id]]})
    /\ \A call \in BagToSet(commits') :
          (call.op = "think_add_timeout" /\ Issues(call))
             => /\ ThinkAddCalls(call.session.id)
                /\ Present(call.session.id)
                /\ Elapsed(call.session.id)
                /\ CopiesIn(call, commits') = CopiesIn(call, commits) + 1
    /\ \A call \in HostCalls("think_add_timeout") :
          Consumes(call)
             => /\ call.session.id \notin DOMAIN sessions'
                /\ store' = store
                /\ IF Present(call.session.id)
                   THEN /\ ret'.err = "Await"
                        /\ commits' = (commits (-) SetToBag({call}))
                               (+) SetToBag({[op |-> "think_add_partial",
                                              session |-> sessions[call.session.id]]})
                   ELSE /\ ret'.op = "think_add" /\ ret'.err = "McpError"
                        /\ commits' = commits (-) SetToBag({call})
    /\ \A call \in HostCalls("think_add_partial") :
          Consumes(call)
             => /\ commits' = commits (-) SetToBag({call})
                /\ sessions' = sessions
                /\ \A id \in DOMAIN sessions' : sessions'[id].inst # call.session.inst
                /\ Len(store') = Len(store) + 1
                /\ SubSeq(store', 1, Len(store)) = store
                /\ store'[Len(store')].op = "add_with_tags"
                /\ store'[Len(store')].tag = "incomplete_thought"
                /\ store'[Len(store')].content =
                      "FastThink session interrupted (timeout)\n\nThoughts:\n"
                         \o Bullets(call.session.graph.nodes, 1)
                         \o "\n\n[Action: Continue research with think_start]"
                /\ ret'.op = "think_add"
                /\ (ret'.err = "timeout_committed") = store'[Len(store')].ok
                /\ (ret'.err = "McpError") = ~store'[Len(store')].ok
                /\ store'[Len(store')].ok => ret'.id = "mem"
    /\ store' # store
          => \E call \in HostCalls("think_add_partial") : Consumes(call)

(* C22: when the engine's add_thought fails Timeout inside think_add, the   *)
(* handler makes one commit_partial call on that session id with the reason *)
(* "timeout", and it does make it; once commit_partial has run the session  *)
(* is out of the manager whether the store accepts the write or not, and    *)
(* the tool answers success, with the memory id, exactly when the store     *)
(* accepted it.                                                             *)
C22_TimeoutSalvage ==
    /\ [][TimeoutSalvageSteps]_vars
    /\ (SalvagePending ~> ~SalvagePending)

(* A think_add answered timeout_committed with a memory id and the session  *)
(* is gone.                                                                 *)
C22_Witness ==
    /\ ret.op = "think_add" /\ ret.err = "timeout_committed" /\ ret.id = "mem"
    /\ ~Present(ret.session_id)
    /\ store[Len(store)].tag = "incomplete_thought" /\ store[Len(store)].ok

(* A think_add whose store write failed answered an error and the session   *)
(* is gone.                                                                 *)
SalvageWriteFailed ==
    /\ ret.op = "think_add" /\ ret.err = "McpError"
    /\ ~Present(ret.session_id)
    /\ Len(store) > 0 /\ ~store[Len(store)].ok

(* Two think_add calls saw the timeout and the second found the session     *)
(* gone.                                                                    *)
SalvageFoundGone ==
    /\ ret.op = "think_add" /\ ret.err = "McpError"
    /\ HostCalls("think_add_partial") # {}

(* The step is a tool call on the session under id in which the engine     *)
(* found thinking_timeout exceeded.                                         *)
TimeoutDetected(id) ==
    \/ ThinkAddCalls(id) /\ Elapsed(id)
    \/ /\ ret'.op \in {"conclude", "recall"} /\ ret'.session_id = id
       /\ ret'.err = "Timeout"

(* C23: whenever think_add, think_conclude or think_recall finds the        *)
(* thinking timeout exceeded, the session's thoughts are on their way to    *)
(* the store with the incomplete_thought tag: a commit_partial is due or    *)
(* running for that session.                                                *)
C23_TimedOutSaved ==
    [][\A id \in DOMAIN sessions :
          TimeoutDetected(id)
             => \E call \in BagToSet(commits') :
                   /\ call.op \in {"think_add_timeout", "think_add_partial"}
                   /\ call.session.inst = sessions[id].inst]_vars

(* The same for think_add alone. *)
ThinkAddTimeoutSaved ==
    [][\A id \in DOMAIN sessions :
          (ThinkAddCalls(id) /\ Elapsed(id))
             => \E call \in BagToSet(commits') :
                   /\ call.op \in {"think_add_timeout", "think_add_partial"}
                   /\ call.session.inst = sessions[id].inst]_vars

(* C24: one recall call inserts at most max_recall_results Recall         *)
(* thoughts, however many records the search returns.                       *)
C24_RecallBound ==
    [][RecallRan
          => /\ Len(ret'.nodes) <= max_recall_results
             /\ Len(sessions'[ret'.session_id].graph.nodes)
                   <= Len(sessions[ret'.session_id].graph.nodes)
                         + max_recall_results]_vars

(* The same when the search returns no more records than the limit it was   *)
(* passed.                                                                  *)
RecallBoundWithinLimit ==
    [][(RecallRan /\ Len(ret'.memories) <= max_recall_results)
          => /\ Len(ret'.nodes) <= max_recall_results
             /\ Len(sessions'[ret'.session_id].graph.nodes)
                   <= Len(sessions[ret'.session_id].graph.nodes)
                         + max_recall_results]_vars

(* The session under id holds max_thoughts thoughts. *)
Full(id) == Len(sessions[id].graph.nodes) >= max_thoughts

(* C25: add_thought tests Timeout, then TooManyThoughts, then TooDeep.  A   *)
(* session past thinking_timeout fails Timeout with status TimedOut even    *)
(* when it is full; a full session within the timeout fails                 *)
(* TooManyThoughts with status Overflow even when the parent is at          *)
(* max_depth; TooDeep is returned only by a session within the timeout and  *)
(* not full, for a parent at max_depth, and then the status is unchanged.   *)
C25_FailureOrdering ==
    [][\A id \in DOMAIN sessions :
          (ret'.op = "add_thought" /\ ret'.session_id = id)
             => /\ Elapsed(id)
                   => /\ ret'.err = "Timeout"
                      /\ sessions'[id].status = "timed_out"
                /\ (~Elapsed(id) /\ Full(id))
                   => /\ ret'.err = "TooManyThoughts"
                      /\ sessions'[id].status = "overflow"
                /\ ret'.err = "Timeout" => Elapsed(id)
                /\ ret'.err = "TooManyThoughts" => ~Elapsed(id) /\ Full(id)
                /\ ret'.err = "TooDeep"
                   => /\ ~Elapsed(id) /\ ~Full(id)
                      /\ ParentAtMaxDepth(id)
                      /\ sessions'[id].status = sessions[id].status
                /\ (~Elapsed(id) /\ ~Full(id) /\ ParentAtMaxDepth(id))
                   => ret'.err = "TooDeep"
                /\ ret'.err # "Ok" => sessions'[id].graph = sessions[id].graph]_vars

(* An add_thought on a full session past the timeout failed Timeout and     *)
(* left the status TimedOut.                                                *)
C25_Witness ==
    /\ ret.op = "add_thought" /\ ret.err = "Timeout"
    /\ Present(ret.session_id)
    /\ Len(sessions[ret.session_id].graph.nodes) = max_thoughts
    /\ sessions[ret.session_id].status = "timed_out"

(* An add_thought under a parent at max_depth on a full session failed      *)
(* TooManyThoughts.                                                         *)
FullBeforeDeep ==
    /\ ret.op = "add_thought" /\ ret.err = "TooManyThoughts"
    /\ Present(ret.session_id)
    /\ sessions[ret.session_id].graph.nodes[ret.parent].depth = max_depth
    /\ sessions[ret.session_id].status = "overflow"

(* An add_thought failed TooDeep. *)
DeepAlone ==
    /\ ret.op = "add_thought" /\ ret.err = "TooDeep"
    /\ Present(ret.session_id)
    /\ sessions[ret.session_id].status = "thinking"

(* The session object a call was made on is no longer in the map. *)
Gone(inst) == \A id \in DOMAIN sessions : sessions[id].inst # inst

(* The step takes a suspended recall out of recalls. *)
Resumes(call) == CopiesIn(call, recalls') < CopiesIn(call, recalls)

(* The step is a recall coming back from a search that found records or     *)
(* none.                                                                    *)
RecallResumes ==
    /\ ret'.op = "recall"
    /\ ret'.err \notin {"Await", "RecallFailed"}
    /\ \E call \in BagToSet(recalls) : Resumes(call)

RecallResumesGone ==
    (RecallResumes /\ Gone(ret'.inst))
       => /\ ret'.err = "SessionNotFound"
          /\ sessions' = sessions

RecallOnAbsent ==
    (ret'.op = "recall" /\ ret'.session_id \notin DOMAIN sessions
       /\ \A call \in BagToSet(recalls) : ~Resumes(call))
       => /\ ret'.err = "SessionNotFound"
          /\ recalls' = recalls
          /\ sessions' = sessions

(* C26: a recall whose session was removed between its phase 1 and its      *)
(* phase 3 returns SessionNotFound and inserts no thought in any session;   *)
(* a recall on an absent id fails SessionNotFound in phase 1 and issues no  *)
(* search.                                                                  *)
C26_RecallAfterRemoval ==
    [][RecallResumesGone /\ RecallOnAbsent]_vars

(* The same while no session is started again under a removed session's id. *)
RecallAfterRemovalSameId ==
    [][/\ (RecallResumes /\ ret'.session_id \notin DOMAIN sessions)
             => /\ ret'.err = "SessionNotFound"
                /\ sessions' = sessions
       /\ RecallOnAbsent]_vars

(* A recall came back to a removed session and returned SessionNotFound. *)
RecallFoundGone ==
    /\ ret.op = "recall" /\ ret.err = "SessionNotFound"
    /\ ret.inst > 0
    /\ \E k \in 1..Len(taken) : taken[k].inst = ret.inst

(* C27: commit writes to the store only for a session whose status, when  *)
(* commit removed it, was Decided or Thinking; never for a session that     *)
(* was TimedOut, Overflow or NeedsRecall.                                   *)
C27_CommitFromDecided ==
    [][(ret'.op = "commit" /\ store' # store)
          => \E call \in HostCalls("commit") :
                /\ Consumes(call)
                /\ call.session.status \in {"decided", "thinking"}]_vars

(* The statuses of the sessions a commit has removed and is writing. *)
CommitTook(status) ==
    \E call \in HostCalls("commit") : call.session.status = status

CommitTookTimedOut == CommitTook("timed_out")

CommitTookOverflow == CommitTook("overflow")

CommitTookNeedsRecall == CommitTook("needs_recall")

(* The edges a conclude given the list supporting adds for its new thought *)
(* node: LeadsTo from the first element, Supports from each later one.      *)
ConcludeEdges(supporting, node) ==
    [k \in 1..Len(supporting) |->
        [source |-> supporting[k], target |-> node,
         weight |-> IF k = 1 THEN "leads_to" ELSE "supports"]]

C29_LinkFrame ==
    [][\A id \in DOMAIN sessions :
          (ret'.op = "link_thoughts" /\ ret'.session_id = id)
             => LET s == sessions[id]
                    s2 == sessions'[id]
                    c == Len(s.graph.nodes)
                    from == ret'.nodes[1]
                    to == ret'.nodes[2]
                    e == Len(s.graph.edges)
                IN /\ IF from \in 1..c /\ to \in 1..c
                      THEN /\ ret'.err = "Ok"
                           /\ Len(s2.graph.edges) = e + 1
                           /\ SubSeq(s2.graph.edges, 1, e) = s.graph.edges
                           /\ s2.graph.edges[e + 1].source = from
                           /\ s2.graph.edges[e + 1].target = to
                           /\ s2.graph.edges[e + 1].weight \in EdgeLabels
                      ELSE /\ ret'.err = "ThoughtNotFound"
                           /\ s2.graph.edges = s.graph.edges
                   /\ s2.status = s.status
                   /\ s2.graph.nodes = s.graph.nodes
                   /\ s2.current_depth = s.current_depth
                   /\ s2.root_thought = s.root_thought
                   /\ s2.entities = s.entities
                   /\ s2.concepts = s.concepts
                   /\ s2.thought_to_entities = s.thought_to_entities
                   /\ s2.thought_to_concepts = s.thought_to_concepts]_vars

(* A link_thoughts put a second edge, under another label, between two      *)
(* thoughts of a Decided session that holds an entity.                      *)
C29_Witness ==
    /\ ret.op = "link_thoughts" /\ ret.err = "Ok"
    /\ Present(ret.session_id)
    /\ LET s == sessions[ret.session_id]
           e == Len(s.graph.edges)
       IN /\ s.status = "decided"
          /\ DOMAIN s.entities # {}
          /\ e >= 2
          /\ \E k \in 1..(e - 1) :
                /\ s.graph.edges[k].source = s.graph.edges[e].source
                /\ s.graph.edges[k].target = s.graph.edges[e].target
                /\ s.graph.edges[k].weight # s.graph.edges[e].weight

(* A link_thoughts added an edge from a thought to itself. *)
LinkedToItself ==
    /\ ret.op = "link_thoughts" /\ ret.err = "Ok"
    /\ ret.nodes[1] = ret.nodes[2]

(* The thoughts the session under id held before the step; none when the   *)
(* step created the session.                                                *)
ThoughtsBefore(id) ==
    IF id \in DOMAIN sessions /\ sessions[id].inst = sessions'[id].inst
    THEN sessions[id].graph.nodes
    ELSE <<>>

(* Every thought the session held before the step keeps its depth. *)
DepthsKept(id) ==
    \A k \in 1..Len(ThoughtsBefore(id)) :
       /\ k <= Len(sessions'[id].graph.nodes)
       /\ sessions'[id].graph.nodes[k].depth = ThoughtsBefore(id)[k].depth

(* The thoughts the step created in the session under id. *)
Created(id) == (Len(ThoughtsBefore(id)) + 1)..Len(sessions'[id].graph.nodes)

(* Every thought the step created under a parent that was a thought of the  *)
(* session when it was inserted lies one level below that parent.           *)
BelowValidParent(id) ==
    \A k \in Created(id) :
       ret'.parent \in 1..(k - 1)
          => sessions'[id].graph.nodes[k].depth
                = sessions'[id].graph.nodes[ret'.parent].depth + 1

(* C30: a thought created with a parent ref lies one level below that      *)
(* parent, a thought has depth 0 only when it was created with no parent    *)
(* ref, and no step changes the depth of a thought that exists.             *)
C30_DepthRule ==
    [][\A id \in DOMAIN sessions' :
          /\ DepthsKept(id)
          /\ \A k \in Created(id) :
                LET depth == sessions'[id].graph.nodes[k].depth
                    parent == ret'.parent
                IN /\ parent # NoNode
                      => /\ parent \in 1..Len(sessions'[id].graph.nodes)
                         /\ depth = sessions'[id].graph.nodes[parent].depth + 1
                   /\ depth = 0 => parent = NoNode]_vars

(* What does hold: depths never change, a thought under a parent that is a  *)
(* thought of the session lies one level below it, and every other thought  *)
(* has depth 0.                                                             *)
DepthRuleForThoughts ==
    [][\A id \in DOMAIN sessions' :
          /\ DepthsKept(id)
          /\ BelowValidParent(id)
          /\ \A k \in Created(id) :
                ret'.parent \notin 1..(k - 1)
                   => sessions'[id].graph.nodes[k].depth = 0]_vars

(* add_thought returned Ok for a thought whose parent ref was its own index. *)
OwnParentAccepted ==
    /\ ret.op = "add_thought" /\ ret.err = "Ok"
    /\ ret.parent = ret.node /\ ret.node # NoNode
    /\ Present(ret.session_id)
    /\ sessions[ret.session_id].graph.nodes[ret.node].depth = 0

(* The session under id has its first thought, the Initial one, as root,    *)
(* and the step does not move the root of a session it found.               *)
RootFirstAndFixed(id) ==
    /\ sessions'[id].root_thought = 1
    /\ Len(sessions'[id].graph.nodes) >= 1
    /\ sessions'[id].graph.nodes[1].thought_type = "initial"
    /\ (id \in DOMAIN sessions /\ sessions[id].inst = sessions'[id].inst)
          => sessions'[id].root_thought = sessions[id].root_thought

(* Thought k of the session under id has, after the step, an incoming       *)
(* LeadsTo or Recalled edge.                                                *)
HasParentEdge(id, k) ==
    \E e \in 1..Len(sessions'[id].graph.edges) :
       /\ sessions'[id].graph.edges[e].target = k
       /\ sessions'[id].graph.edges[e].weight \in {"leads_to", "recalled"}

(* C31: the root of a session is its first thought, the Initial thought of  *)
(* start_thinking, no step moves it, and every other thought is created     *)
(* with an incoming LeadsTo or Recalled edge.                               *)
C31_Root ==
    [][\A id \in DOMAIN sessions' :
          /\ RootFirstAndFixed(id)
          /\ \A k \in Created(id) :
                ~HasParentEdge(id, k) => k = sessions'[id].root_thought]_vars

(* What does hold: the root is the first thought and stays. *)
RootIsFirstThought ==
    [][\A id \in DOMAIN sessions' : RootFirstAndFixed(id)]_vars

(* add_thought without a parent succeeded on a session that has its root. *)
ParentlessAfterRoot ==
    /\ ret.op = "add_thought" /\ ret.err = "Ok" /\ ret.parent = NoNode
    /\ Present(ret.session_id)
    /\ ret.node # sessions[ret.session_id].root_thought

(* C32: every thought of every session has a certainty from 0.0 to 1.0     *)
(* (0 to 10 tenths), the Recall thoughts, whose certainty is the score of   *)
(* the record they were recalled from, included.                            *)
C32_CertaintyRange ==
    \A id \in DOMAIN sessions :
       \A k \in 1..Len(sessions[id].graph.nodes) :
          /\ sessions[id].graph.nodes[k].certainty >= 0
          /\ sessions[id].graph.nodes[k].certainty <= 10

(* What does hold: a thought that is not a Recall has certainty 0.5, and a  *)
(* Recall thought has the score of a record of the store.                   *)
CertaintyIsDefaultOrScore ==
    \A id \in DOMAIN sessions :
       \A k \in 1..Len(sessions[id].graph.nodes) :
          IF is_recall(sessions[id].graph.nodes[k])
          THEN sessions[id].graph.nodes[k].certainty \in Scores
          ELSE sessions[id].graph.nodes[k].certainty = 5

(* There is an edge from thought a to thought b in graph g. *)
HasEdge(g, a, b) ==
    \E e \in 1..Len(g.edges) : g.edges[e].source = a /\ g.edges[e].target = b

(* The chain of thought x in session s is a list of thoughts of s without   *)
(* repetition that ends with x, each one with an edge to the next.          *)
ChainIsPath(s, x) ==
    LET chain == get_chain_to_root(s, x)
    IN /\ Len(chain) \in 1..Len(s.graph.nodes)
       /\ chain[Len(chain)] = x
       /\ \A i \in 1..Len(chain) : chain[i] \in 1..Len(s.graph.nodes)
       /\ \A i \in 1..Len(chain), j \in 1..Len(chain) : chain[i] = chain[j] => i = j
       /\ \A i \in 1..(Len(chain) - 1) : HasEdge(s.graph, chain[i], chain[i + 1])

(* The walk from x stopped because the next parent was already on the chain. *)
StoppedOnRevisit(s, x) ==
    LET chain == get_chain_to_root(s, x)
    IN /\ Len(get_parents(s.graph, chain[1])) > 0
       /\ Contains(chain, get_parents(s.graph, chain[1])[1].source)

(* C33: for every thought x of every session, also when link_thoughts has   *)
(* made cycles or self-loops, get_chain_to_root(x) returns a list of        *)
(* thoughts without repetition that ends with x and in which each thought   *)
(* has an edge to the next.                                                 *)
C33_ChainTerminates ==
    \A id \in DOMAIN sessions :
       \A x \in 1..Len(sessions[id].graph.nodes) : ChainIsPath(sessions[id], x)

(* A thought whose chain holds two thoughts or more and was cut short by a  *)
(* cycle that link_thoughts closed.                                         *)
C33_Witness ==
    /\ ret.op = "link_thoughts" /\ ret.err = "Ok"
    /\ \E id \in DOMAIN sessions :
          \E x \in 1..Len(sessions[id].graph.nodes) :
             /\ Len(get_chain_to_root(sessions[id], x)) >= 2
             /\ StoppedOnRevisit(sessions[id], x)

(* A thought with an edge to itself whose chain is the thought alone. *)
SelfLoopChain ==
    \E id \in DOMAIN sessions :
       \E x \in 1..Len(sessions[id].graph.nodes) :
          /\ get_chain_to_root(sessions[id], x) = <<x>>
          /\ StoppedOnRevisit(sessions[id], x)

ReadOps == {"get_session_status", "get_thought_chain", "active_session_count",
            "list_sessions"}

InsertOps == {"add_thought", "conclude", "recall"}

(* The session under id is the same object before and after the step and   *)
(* its thinking_timeout has elapsed.                                        *)
StaysElapsed(id) ==
    /\ id \in DOMAIN sessions'
    /\ sessions'[id].inst = sessions[id].inst
    /\ now - sessions[id].started_at > thinking_timeout

(* C34: get_session_status, get_thought_chain, active_session_count and    *)
(* list_sessions change no session and nothing else of the manager, and a   *)
(* session whose thinking_timeout has elapsed keeps its status through      *)
(* every step that is not an add_thought, a conclude or a recall.           *)
C34_PureReads ==
    [][/\ ret'.op \in ReadOps
             => UNCHANGED <<sessions, recalls, commits, now, store, started, taken>>
       /\ \A id \in DOMAIN sessions :
             (StaysElapsed(id) /\ ret'.op \notin InsertOps)
                => sessions'[id].status = sessions[id].status]_vars

(* get_session_status reported a Decided session whose timeout had elapsed  *)
(* and left it Decided.                                                     *)
C34_Witness ==
    /\ ret.op = "get_session_status" /\ ret.err = "Ok"
    /\ ret.info.elapsed > thinking_timeout
    /\ ret.info.status = "decided"
    /\ Present(ret.session_id)
    /\ sessions[ret.session_id].status = "decided"

(* The same for a session that is Thinking, asked for a chain. *)
ElapsedThinkingRead ==
    /\ ret.op = "get_thought_chain" /\ ret.err = "Ok" /\ Len(ret.nodes) = 2
    /\ Present(ret.session_id)
    /\ now - sessions[ret.session_id].started_at > thinking_timeout
    /\ sessions[ret.session_id].status = "thinking"

(* Every session in the map holds a thought and has its root recorded. *)
StoredSessionsHaveRoot ==
    \A id \in DOMAIN sessions' :
       /\ Len(sessions'[id].graph.nodes) >= 1
       /\ sessions'[id].root_thought \in 1..Len(sessions'[id].graph.nodes)

(* The step before this one created the session under id. *)
JustStarted(id) ==
    ret.op = "start_thinking" /\ ret.err = "Ok" /\ ret.session_id = id

(* C35: every session in the map holds at least one thought and has a      *)
(* root; a start_thinking that fails stores no session; a discard never     *)
(* reports 0 thoughts and reports exactly 1 right after the start; and      *)
(* commit_partial never fails NoConclusion.                                 *)
C35_NeverEmpty ==
    [][/\ StoredSessionsHaveRoot
       /\ (ret'.op = "start_thinking" /\ ret'.err # "Ok") => sessions' = sessions
       /\ (ret'.op = "discard" /\ ret'.err = "Ok")
             => /\ ret'.count >= 1
                /\ JustStarted(ret'.session_id) => ret'.count = 1
       /\ ret'.op = "commit_partial" => ret'.err # "NoConclusion"]_vars

(* A discard right after the start reported one thought. *)
C35_Witness ==
    /\ ret.op = "discard" /\ ret.err = "Ok" /\ ret.count = 1
    /\ taken # <<>>
    /\ ~Present(ret.session_id)

(* A commit_partial took a session that held its initial thought alone. *)
PartialOfFreshSession ==
    /\ ret.op = "commit_partial" /\ ret.err = "Ok" /\ ret.count = 1

(* C36: a session whose status is Decided holds a Conclusion thought, and   *)
(* get_session_status never reports Decided with has_conclusion false.      *)
C36_DecidedHasConclusion ==
    /\ \A id \in DOMAIN sessions :
          sessions[id].status = "decided" => ConclusionThoughts(sessions[id]) # {}
    /\ (ret.op = "get_session_status" /\ ret.err = "Ok" /\ ret.info.status = "decided")
          => ret.info.has_conclusion

(* get_session_status reported Decided with a conclusion, on a session      *)
(* that holds exactly one Conclusion thought.                               *)
C36_Witness ==
    /\ ret.op = "get_session_status" /\ ret.err = "Ok"
    /\ ret.info.status = "decided" /\ ret.info.has_conclusion
    /\ Present(ret.session_id)
    /\ Cardinality(ConclusionThoughts(sessions[ret.session_id])) = 1

(* The step is a recall coming back under id, where a session other than   *)
(* the one it was called on is stored now.                                  *)
RecallResumesOnSuccessor(id) ==
    /\ RecallResumes
    /\ ret'.session_id = id
    /\ sessions[id].inst # ret'.inst

(* C37: a recall that comes back after its session was removed and another *)
(* was started under the same id inserts no thought into the new session    *)
(* and leaves the new session's status as it is.                            *)
C37_RecallBoundToInstance ==
    [][\A id \in DOMAIN sessions :
          RecallResumesOnSuccessor(id)
             => /\ id \in DOMAIN sessions'
                /\ sessions'[id].graph = sessions[id].graph
                /\ sessions'[id].status = sessions[id].status]_vars

(* A recall of an earlier session returned Ok with a thought it put into    *)
(* the session started after it under the same id.                          *)
RecallIntoSuccessor ==
    /\ ret.op = "recall" /\ ret.err = "Ok" /\ Len(ret.nodes) > 0
    /\ Present(ret.session_id)
    /\ sessions[ret.session_id].inst # ret.inst
    /\ \E k \in 1..Len(sessions[ret.session_id].graph.nodes) :
          is_recall(sessions[ret.session_id].graph.nodes[k])

(* The insertions into the session under id that the step reported as      *)
(* successful: one for an add_thought or conclude that returned Ok, and the *)
(* thoughts a recall lists as inserted.                                     *)
Succeeded(id) ==
    IF ret'.session_id # id THEN 0
    ELSE IF ret'.op \in AddOps /\ ret'.err = "Ok" THEN 1
    ELSE IF ret'.op = "recall" THEN Len(ret'.nodes)
    ELSE 0

(* A session starts with its initial thought, and a session that is there   *)
(* gains in a step exactly the thoughts whose insertion was reported.       *)
GrowsBySuccesses ==
    \A id \in DOMAIN sessions' :
       Len(sessions'[id].graph.nodes)
          = IF id \in DOMAIN sessions /\ sessions[id].inst = sessions'[id].inst
            THEN Len(sessions[id].graph.nodes) + Succeeded(id)
            ELSE 1

(* The call that removes a session takes it as it is in the map, and the    *)
(* number it reports is the number of thoughts of the session it took.      *)
RemovalReportsSize ==
    /\ \A call \in BagToSet(commits') :
          (Issues(call) /\ call.op \in {"commit", "commit_partial"})
             => /\ call.session.id \in DOMAIN sessions
                /\ call.session = sessions[call.session.id]
                /\ call.session.id \notin DOMAIN sessions'
    /\ (ret'.op \in {"commit", "commit_partial"} /\ ret'.err = "Ok")
          => \E call \in BagToSet(commits) :
                /\ Consumes(call)
                /\ call.session.inst = ret'.inst
                /\ ret'.count = Len(call.session.graph.nodes)
    /\ (ret'.op = "discard" /\ ret'.err = "Ok")
          => /\ ret'.session_id \in DOMAIN sessions
             /\ ret'.session_id \notin DOMAIN sessions'
             /\ ret'.count = Len(sessions[ret'.session_id].graph.nodes)

(* An add_thought, conclude or recall on an id that is not in the map fails *)
(* SessionNotFound (a recall whose search failed says RecallFailed) and     *)
(* changes no session.                                                      *)
MutationAfterRemovalFails ==
    (ret'.op \in InsertOps /\ ret'.session_id \notin DOMAIN sessions)
       => /\ ret'.err \in {"SessionNotFound", "RecallFailed"}
          /\ sessions' = sessions

(* C38: the number of thoughts reported by the commit, commit_partial or   *)
(* discard that removes a session is 1, for the initial thought, plus the   *)
(* number of add_thought, conclude and recall insertions that returned      *)
(* success on that session, whatever the interleaving; a mutation after the *)
(* removal fails SessionNotFound.  Stated step by step: a session starts    *)
(* with one thought, grows by exactly the insertions reported successful,   *)
(* and is reported at the size it had when it was taken.                    *)
C38_NoLostMutation ==
    [][GrowsBySuccesses /\ RemovalReportsSize /\ MutationAfterRemovalFails]_vars

(* An add_thought whose parent ref lay beyond the graph did not return and *)
(* left its thought in the session.                                         *)
UnreportedThought ==
    /\ ret.op = "add_thought" /\ ret.err = "Panic"
    /\ Present(ret.session_id)
    /\ Len(sessions[ret.session_id].graph.nodes) = 2

C40_LastActivityFrame ==
    [][\A id \in DOMAIN sessions :
          Stays(id)
             => sessions'[id].last_activity
                   = IF Succeeded(id) > 0 THEN now ELSE sessions[id].last_activity]_vars

(* extract_entity succeeded on a session whose last activity is session_ttl *)
(* or more in the past: the annotated session is due for the sweep.         *)
C40_Witness ==
    /\ ret.op = "extract_entity" /\ ret.err = "Ok"
    /\ Present(ret.session_id)
    /\ now - sessions[ret.session_id].last_activity >= session_ttl
    /\ DOMAIN sessions[ret.session_id].entities # {}

(* A recall that came back with no record left the last activity in the     *)
(* past.                                                                    *)
EmptyRecallNoActivity ==
    /\ ret.op = "recall" /\ ret.err = "Ok" /\ ret.nodes = <<>> /\ ret.memories = <<>>
    /\ Present(ret.session_id)
    /\ sessions[ret.session_id].last_activity < now

====
